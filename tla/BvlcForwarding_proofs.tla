------------------------ MODULE BvlcForwarding_proofs ------------------------
(***************************************************************************)
(* Machine-checked proofs about BvlcForwarding, for any number of BBMDs,   *)
(* devices and foreign devices and tables of any size: the backup file is  *)
(* current, and a broadcast sent while the tables are complete and equal   *)
(* reaches everybody, and each device on a BBMD's subnet once.             *)
(*                                                                         *)
(* Neither is inductive: what matters is what the copies under way will    *)
(* become.  Bound says of a copy that it is, or will lead to, a copy for a *)
(* host.  Whoever has not received the broadcast has a copy bound for him; *)
(* a device never has two.                                                 *)
(***************************************************************************)
EXTENDS BvlcForwarding, FiniteSetTheorems, TLAPS

USE ForwardingAssumption

-----------------------------------------------------------------------------
(* Bags of copies *)

\* Every copy is there at least once, and the socket's bound holds.
NetOK == \A m \in BagToSet(net) : net[m] \in 1 .. Buffer

\* A bag of which every copy is there at least once.
Positive(B) == \A m \in BagToSet(B) : B[m] \in Nat /\ B[m] > 0

LEMMA SumFacts ==
  ASSUME NEW A, NEW B
  PROVE  /\ BagToSet(A (+) B) = BagToSet(A) \cup BagToSet(B)
         /\ \A x \in BagToSet(A) \ BagToSet(B) :
              A[x] \in Nat => (A (+) B)[x] = A[x]
         /\ \A x \in BagToSet(B) \ BagToSet(A) :
              B[x] \in Nat => (A (+) B)[x] = B[x]
         /\ Positive(A) /\ Positive(B) => Positive(A (+) B)
<1>1. A (+) B = [e \in DOMAIN A \cup DOMAIN B |->
                   (IF e \in DOMAIN A THEN A[e] ELSE 0)
                     + (IF e \in DOMAIN B THEN B[e] ELSE 0)]
  BY DEF (+)
<1> QED BY <1>1 DEF BagToSet, Positive

LEMMA SetBag ==
  ASSUME NEW S
  PROVE  /\ BagToSet(SetToBag(S)) = S
         /\ \A x \in S : SetToBag(S)[x] = 1
         /\ Positive(SetToBag(S))
BY DEF BagToSet, SetToBag, Positive

LEMMA NoCopies ==
  /\ BagToSet(EmptyBag) = {} /\ Positive(EmptyBag)
BY DEF BagToSet, EmptyBag, SetToBag, Positive

\* What is under way after a copy has arrived and been answered.
LEMMA ArrivingNet ==
  ASSUME NetOK, NEW m \in BagToSet(net), NEW answer, Positive(answer),
         NEW heard, Arriving(m, answer, heard)
  PROVE  /\ NetOK'
         /\ BagToSet(answer) \subseteq BagToSet(net')
         /\ \A x \in BagToSet(net) : x # m => x \in BagToSet(net')
         /\ \A x \in BagToSet(net') :
              \/ x \in BagToSet(answer)
              \/ x \in BagToSet(net) /\ (x = m => net[m] > 1)
         /\ \A x \in BagToSet(net') :
              x \notin BagToSet(answer) /\ net[x] = 1 => net'[x] = 1
         /\ \A x \in BagToSet(answer) :
              answer[x] = 1 /\ (x \in BagToSet(net) => x = m /\ net[m] = 1)
                => net'[x] = 1
<1> DEFINE rest == net (-) SetToBag({m})
           pending == rest (+) answer
           left(x) == IF x = m THEN net[x] - 1 ELSE net[x]
<1>1. net' = [x \in BagToSet(pending) |->
                IF pending[x] > Buffer THEN Buffer ELSE pending[x]]
  BY DEF Arriving
<1>2. \A x \in BagToSet(net) : left(x) \in Nat BY DEF NetOK
<1>3. /\ BagToSet(rest) = {x \in BagToSet(net) : left(x) > 0}
      /\ \A x \in BagToSet(rest) : rest[x] = left(x)
  <2> DEFINE B == [e \in DOMAIN net |->
                     IF e \in {m} THEN net[e] - 1 ELSE net[e]]
  <2>1. SetToBag({m}) = [e \in {m} |-> 1] BY DEF SetToBag
  <2>2. rest = LET C == [e \in DOMAIN net |->
                           IF e \in DOMAIN SetToBag({m})
                           THEN net[e] - SetToBag({m})[e] ELSE net[e]]
               IN [e \in {d \in DOMAIN C : C[d] > 0} |-> C[e]]
    BY DEF (-)
  <2>3. [e \in DOMAIN net |-> IF e \in DOMAIN SetToBag({m})
                              THEN net[e] - SetToBag({m})[e] ELSE net[e]] = B
    BY <2>1
  <2>4. rest = [e \in {d \in DOMAIN B : B[d] > 0} |-> B[e]] BY <2>2, <2>3
  <2>5. \A e \in DOMAIN net : B[e] = left(e) OBVIOUS
  <2> QED BY <2>4, <2>5 DEF BagToSet
<1> HIDE DEF rest
<1>4. Positive(rest) BY <1>2, <1>3 DEF Positive
<1>5. /\ BagToSet(pending) = BagToSet(rest) \cup BagToSet(answer)
      /\ \A x \in BagToSet(rest) \ BagToSet(answer) : pending[x] = left(x)
      /\ \A x \in BagToSet(answer) \ BagToSet(rest) : pending[x] = answer[x]
      /\ Positive(pending)
  BY <1>2, <1>3, <1>4, SumFacts DEF Positive
<1> HIDE DEF pending
<1>6. BagToSet(net') = BagToSet(pending) BY <1>1 DEF BagToSet
<1>7. /\ \A x \in BagToSet(pending) :
           net'[x] = IF pending[x] > Buffer THEN Buffer ELSE pending[x]
  BY <1>1
<1>8. NetOK' BY <1>5, <1>6, <1>7 DEF NetOK, Positive
<1>9. \A x \in BagToSet(net') : x \notin BagToSet(answer) /\ net[x] = 1
                                  => net'[x] = 1
  BY <1>3, <1>5, <1>6, <1>7 DEF NetOK
<1>10. \A x \in BagToSet(answer) :
         answer[x] = 1 /\ (x \in BagToSet(net) => x = m /\ net[m] = 1)
           => net'[x] = 1
  BY <1>3, <1>5, <1>6, <1>7
<1>11. \A x \in BagToSet(net) : x # m => x \in BagToSet(rest)
  BY <1>3 DEF NetOK
<1>12. \A x \in BagToSet(rest) : x \in BagToSet(net) /\ (x = m => net[m] > 1)
  BY <1>3 DEF NetOK
<1> QED BY <1>5, <1>6, <1>8, <1>9, <1>10, <1>11, <1>12

-----------------------------------------------------------------------------
(* What is sent *)

\* The copies of one datagram to an address.
CopiesTo(kind, h, source, address) ==
  [kind : {kind}, from : {h}, source : {source}, to : address]

LEMMA CopiesUnion ==
  ASSUME NEW kind, NEW h, NEW source, NEW A, NEW B
  PROVE  CopiesTo(kind, h, source, A) \cup CopiesTo(kind, h, source, B)
           = CopiesTo(kind, h, source, A \cup B)
BY DEF CopiesTo

LEMMA SentFacts ==
  ASSUME NEW kind, NEW h, NEW source, NEW address
  PROVE  /\ BagToSet(Sent(kind, h, source, address))
              = CopiesTo(kind, h, source, address)
         /\ \A x \in CopiesTo(kind, h, source, address) :
              Sent(kind, h, source, address)[x] = 1
         /\ Positive(Sent(kind, h, source, address))
BY SetBag DEF Sent, CopiesTo

LEMMA RowsCounted ==
  ASSUME NEW b, NEW h, RowsReaching(b, h) # {}
  PROVE  /\ Cardinality(RowsReaching(b, h)) \in Nat
         /\ Cardinality(RowsReaching(b, h)) > 0
<1>1. IsFiniteSet(1 .. MaxBbmdEntries) BY FS_Interval
<1>2. RowsReaching(b, h) \subseteq 1 .. MaxBbmdEntries
  BY DEF RowsReaching, RowsToForwardTo
<1>3. IsFiniteSet(RowsReaching(b, h)) BY <1>1, <1>2, FS_Subset
<1>4. Cardinality(RowsReaching(b, h)) \in Nat BY <1>3, FS_CardinalityType
<1>5. Cardinality(RowsReaching(b, h)) # 0 BY <1>3, FS_EmptySet
<1> QED BY <1>4, <1>5

\* Whom b's table sends to.
Reached(b) == {h \in Hosts : RowsReaching(b, h) # {}}

LEMMA BdtFacts ==
  ASSUME NEW b, NEW source
  PROVE  /\ BagToSet(ForwardedToBdt(b, source))
              = CopiesTo("Forwarded", b, source, Reached(b))
         /\ \A x \in BagToSet(ForwardedToBdt(b, source)) :
              ForwardedToBdt(b, source)[x] = Cardinality(RowsReaching(b, x.to))
         /\ Positive(ForwardedToBdt(b, source))
<1> DEFINE S == CopiesTo("Forwarded", b, source, Reached(b))
<1>0. ForwardedToBdt(b, source)
        = [x \in S |-> Cardinality(RowsReaching(b, x.to))]
  BY Zenon DEF ForwardedToBdt, CopiesTo, Reached
<1> HIDE DEF S
<1>1. BagToSet(ForwardedToBdt(b, source)) = S BY <1>0 DEF BagToSet
<1>2. \A x \in BagToSet(ForwardedToBdt(b, source)) :
        ForwardedToBdt(b, source)[x] = Cardinality(RowsReaching(b, x.to))
  BY <1>0, <1>1
<1> USE DEF S
<1>3. \A x \in BagToSet(ForwardedToBdt(b, source)) : RowsReaching(b, x.to) # {}
  BY <1>1 DEF CopiesTo, Reached
<1> HIDE DEF S
<1>4. ASSUME NEW x \in BagToSet(ForwardedToBdt(b, source))
      PROVE  /\ ForwardedToBdt(b, source)[x] \in Nat
             /\ ForwardedToBdt(b, source)[x] > 0
  <2>1. RowsReaching(b, x.to) # {} BY <1>3
  <2>2. /\ Cardinality(RowsReaching(b, x.to)) \in Nat
        /\ Cardinality(RowsReaching(b, x.to)) > 0
    BY <2>1, RowsCounted
  <2> QED BY <1>2, <2>2
<1>5. Positive(ForwardedToBdt(b, source)) BY <1>4 DEF Positive
<1> QED BY <1>1, <1>2, <1>5 DEF S

\* The answer to a copy that arrives, in one operator for all kinds.
Answer(m) ==
  IF m.to \notin Bbmds THEN EmptyBag
  ELSE CASE m.kind = "Original" ->
              ForwardedToBdt(m.to, m.from) (+) ForwardedToFdt(m.to, m.from)
         [] m.kind = "Distribute" ->
              ForwardedLocally(m.to, m.from) (+) ForwardedToBdt(m.to, m.from)
                (+) ForwardedToFdt(m.to, m.from)
         [] OTHER ->
              (IF MemberMaskIsUnicast(m.to, m.from)
                 THEN ForwardedLocally(m.to, m.source) ELSE EmptyBag)
                (+) ForwardedToFdt(m.to, m.source)

Heard(m) ==
  IF m.to \notin Bbmds THEN {m.to} \ {m.source}
  ELSE IF m.kind = "Distribute" THEN {} ELSE {m.to}

LEMMA ReceivedIsArriving ==
  ASSUME NEW m \in Copies, Receive(m)
  PROVE  Arriving(m, Answer(m), Heard(m))
<1>1. /\ m.kind \in {"Original", "Distribute", "Forwarded"}
      /\ m.to \in Bbmds \cup Devices \cup Foreign
  BY DEF Copies, Hosts
<1>2. CASE DeviceReceive(m)
  BY <1>2 DEF DeviceReceive, Answer, Heard
<1>3. CASE BbmdReceiveOriginal(m)
  BY <1>3 DEF BbmdReceiveOriginal, Answer, Heard
<1>4. CASE BbmdReceiveDistribute(m)
  BY <1>4 DEF BbmdReceiveDistribute, Answer, Heard
<1>5. CASE BbmdReceiveForwarded(m)
  BY <1>5 DEF BbmdReceiveForwarded, Answer, Heard
<1> QED BY <1>2, <1>3, <1>4, <1>5 DEF Receive

\* Who a BBMD that receives m sends Forwarded-NPDUs to, and for which source.
SourceOf(m) == IF m.kind = "Forwarded" THEN m.source ELSE m.from

Locally(m) ==
  \/ m.kind = "Distribute"
  \/ m.kind = "Forwarded" /\ MemberMaskIsUnicast(m.to, m.from)

ToBdt(m) == m.kind \in {"Original", "Distribute"}

AnsweredTo(m) ==
  (IF Locally(m) THEN LocalBroadcast(m.to) ELSE {})
    \cup (IF ToBdt(m) THEN Reached(m.to) ELSE {})
    \cup (fdt[m.to] \ {SourceOf(m)})

LEMMA AnswerFacts ==
  ASSUME NEW m \in Copies
  PROVE  /\ Positive(Answer(m))
         /\ BagToSet(Answer(m))
              = IF m.to \in Bbmds
                THEN CopiesTo("Forwarded", m.to, SourceOf(m), AnsweredTo(m))
                ELSE {}
<1> DEFINE copies(A) == CopiesTo("Forwarded", m.to, SourceOf(m), A)
           L == LocalBroadcast(m.to)
           R == Reached(m.to)
           F == fdt[m.to] \ {SourceOf(m)}
           local == Sent("Forwarded", m.to, SourceOf(m), L)
           bdts == ForwardedToBdt(m.to, SourceOf(m))
           fds == Sent("Forwarded", m.to, SourceOf(m), F)
<1>1. /\ Positive(local) /\ Positive(bdts) /\ Positive(fds)
      /\ BagToSet(local) = copies(L)
      /\ BagToSet(bdts) = copies(R)
      /\ BagToSet(fds) = copies(F)
  <2>1. Positive(local) /\ BagToSet(local) = copies(L)
    <3> HIDE DEF L
    <3> QED BY SentFacts
  <2>2. Positive(bdts) /\ BagToSet(bdts) = copies(R) BY BdtFacts
  <2>3. Positive(fds) /\ BagToSet(fds) = copies(F)
    <3> HIDE DEF F
    <3> QED BY SentFacts
  <2> QED BY <2>1, <2>2, <2>3
<1>2. m.kind \in {"Original", "Distribute", "Forwarded"} BY DEF Copies
<1>3. CASE m.to \notin Bbmds BY <1>3, NoCopies DEF Answer
<1>4. \A A, B : copies(A) \cup copies(B) = copies(A \cup B)
  BY CopiesUnion
<1>5. AnsweredTo(m) = (IF Locally(m) THEN L ELSE {})
                         \cup (IF ToBdt(m) THEN R ELSE {}) \cup F
  BY DEF AnsweredTo
<1>6. CASE m.to \in Bbmds /\ m.kind = "Original"
  <2>1. Answer(m) = bdts (+) fds
    BY <1>6 DEF Answer, ForwardedToFdt, SourceOf
  <2>2. AnsweredTo(m) = R \cup F BY <1>5, <1>6 DEF Locally, ToBdt
  <2> HIDE DEF bdts, fds, local, copies, L, R, F
  <2>3. /\ Positive(Answer(m))
        /\ BagToSet(Answer(m)) = BagToSet(bdts) \cup BagToSet(fds)
    BY <1>1, <2>1, SumFacts
  <2>4. BagToSet(Answer(m)) = copies(AnsweredTo(m))
    BY <1>1, <1>4, <2>2, <2>3
  <2> QED BY <1>6, <2>3, <2>4 DEF copies
<1>7. CASE m.to \in Bbmds /\ m.kind = "Distribute"
  <2>1. Answer(m) = (local (+) bdts) (+) fds
    BY <1>7 DEF Answer, ForwardedToFdt, ForwardedLocally, SourceOf
  <2>2. AnsweredTo(m) = (L \cup R) \cup F BY <1>5, <1>7 DEF Locally, ToBdt
  <2> HIDE DEF bdts, fds, local, copies, L, R, F
  <2>3. /\ Positive(local (+) bdts)
        /\ BagToSet(local (+) bdts) = BagToSet(local) \cup BagToSet(bdts)
    BY <1>1, SumFacts
  <2>4. /\ Positive(Answer(m))
        /\ BagToSet(Answer(m))
             = (BagToSet(local) \cup BagToSet(bdts)) \cup BagToSet(fds)
    BY <1>1, <2>1, <2>3, SumFacts
  <2>5. BagToSet(Answer(m)) = (copies(L) \cup copies(R)) \cup copies(F)
    BY <1>1, <2>4, Zenon
  <2>6. copies(L) \cup copies(R) = copies(L \cup R) BY <1>4, Zenon
  <2>7. copies(L \cup R) \cup copies(F) = copies((L \cup R) \cup F)
    BY <1>4, Zenon
  <2>8. BagToSet(Answer(m)) = copies(AnsweredTo(m))
    BY <2>2, <2>5, <2>6, <2>7, Zenon
  <2> QED BY <1>7, <2>4, <2>8 DEF copies
<1>8. CASE m.to \in Bbmds /\ m.kind = "Forwarded"
  <2> DEFINE first == IF MemberMaskIsUnicast(m.to, m.from) THEN local
                                                           ELSE EmptyBag
             I == IF Locally(m) THEN L ELSE {}
  <2>1. Answer(m) = first (+) fds
    BY <1>8 DEF Answer, ForwardedToFdt, ForwardedLocally, SourceOf
  <2>2. AnsweredTo(m) = I \cup F BY <1>5, <1>8 DEF ToBdt
  <2>3. Locally(m) = MemberMaskIsUnicast(m.to, m.from)
    BY <1>8 DEF Locally, MemberMaskIsUnicast
  <2>4. copies({}) = {} BY DEF CopiesTo
  <2> HIDE DEF bdts, fds, local, copies, L, R, F
  <2>5. Positive(first) /\ BagToSet(first) = copies(I)
    BY <1>1, <2>3, <2>4, NoCopies
  <2> HIDE DEF first, I
  <2>6. /\ Positive(Answer(m))
        /\ BagToSet(Answer(m)) = BagToSet(first) \cup BagToSet(fds)
    BY <1>1, <2>1, <2>5, SumFacts
  <2>7. BagToSet(Answer(m)) = copies(AnsweredTo(m))
    BY <1>1, <1>4, <2>2, <2>5, <2>6
  <2> QED BY <1>8, <2>6, <2>7 DEF copies
<1> QED BY <1>2, <1>3, <1>6, <1>7, <1>8

-----------------------------------------------------------------------------
(* Types *)

LEMMA SentTypes ==
  ASSUME NEW kind \in {"Original", "Distribute"}, NEW h \in Hosts,
         NEW address \in SUBSET Hosts, TypeOK,
         NewBroadcast(h, Sent(kind, h, h, address))
  PROVE  TypeOK'
<1>1. /\ BagToSet(net') = CopiesTo(kind, h, h, address)
      /\ \A x \in BagToSet(net') : net'[x] = 1
  BY SentFacts DEF NewBroadcast
<1>2. BagToSet(net') \subseteq Copies BY <1>1 DEF CopiesTo, Copies
<1>3. \A x \in BagToSet(net') : net'[x] \in 1 .. Buffer BY <1>1
<1>4. Uniform \in BOOLEAN BY DEF Uniform
<1> QED
  BY <1>2, <1>3, <1>4 DEF TypeOK, NewBroadcast, tables

LEMMA AnsweredToHosts ==
  ASSUME TypeOK, NEW m \in Copies, m.to \in Bbmds
  PROVE  AnsweredTo(m) \subseteq Hosts /\ SourceOf(m) \in Hosts
<1>1. LocalBroadcast(m.to) \subseteq Hosts BY DEF LocalBroadcast
<1>2. Reached(m.to) \subseteq Hosts BY DEF Reached
<1>3. fdt[m.to] \subseteq Hosts BY DEF TypeOK, Hosts
<1>4. SourceOf(m) \in Hosts BY DEF SourceOf, Copies
<1> QED BY <1>1, <1>2, <1>3, <1>4 DEF AnsweredTo

LEMMA ReceivedTypes ==
  ASSUME TypeOK, NEW m \in BagToSet(net), Receive(m)
  PROVE  TypeOK'
<1>1. m \in Copies BY DEF TypeOK
<1>2. Arriving(m, Answer(m), Heard(m)) BY <1>1, ReceivedIsArriving
<1>3. NetOK BY DEF TypeOK, NetOK
<1>4. /\ NetOK'
      /\ \A x \in BagToSet(net') :
           x \in BagToSet(Answer(m)) \/ x \in BagToSet(net)
  BY <1>1, <1>2, <1>3, AnswerFacts, ArrivingNet
<1>5. BagToSet(Answer(m)) \subseteq Copies
  <2>1. CASE m.to \in Bbmds
    <3>1. m.to \in Hosts BY <2>1 DEF Hosts
    <3>2. BagToSet(Answer(m))
            = CopiesTo("Forwarded", m.to, SourceOf(m), AnsweredTo(m))
      BY <1>1, <2>1, AnswerFacts
    <3>3. AnsweredTo(m) \subseteq Hosts /\ SourceOf(m) \in Hosts
      BY <1>1, <2>1, AnsweredToHosts
    <3> QED BY <3>1, <3>2, <3>3 DEF CopiesTo, Copies
  <2>2. CASE m.to \notin Bbmds BY <1>1, <2>2, AnswerFacts
  <2> QED BY <2>1, <2>2
<1>6. BagToSet(net') \subseteq Copies BY <1>4, <1>5 DEF TypeOK
<1>7. m.to \in Hosts BY <1>1 DEF Copies
<1>8. Heard(m) \subseteq Hosts BY <1>7 DEF Heard
<1>9. UNCHANGED <<bdt, file, opened, fdt, origin, uniform, changes>>
  BY <1>2 DEF Arriving, tables
<1>10. delivered' \subseteq Hosts /\ repeated' \subseteq Devices
  BY <1>2, <1>8 DEF Arriving, TypeOK
<1> QED BY <1>4, <1>6, <1>9, <1>10 DEF TypeOK, NetOK

\* The tables' part of a reconfiguration.
TablesOK ==
  /\ bdt \in [Bbmds -> Bdts]
  /\ file \in [Bbmds -> Bdts \cup {TornFile}]
  /\ opened \in [Bbmds -> BOOLEAN]
  /\ fdt \in [Bbmds -> SUBSET Foreign]

LEMMA ReconfiguredTypes ==
  ASSUME TypeOK, Reconfigured, TablesOK'
  PROVE  TypeOK'
<1>1. net' = net BY DEF Reconfigured
<1>2. /\ BagToSet(net') \subseteq Copies
      /\ \A m \in BagToSet(net') : net'[m] \in 1 .. Buffer
  BY <1>1 DEF TypeOK
<1>3. /\ origin' \in Hosts \cup {NoHost}
      /\ delivered' \subseteq Hosts /\ repeated' \subseteq Devices
  BY DEF TypeOK, Reconfigured
<1>4. uniform' \in BOOLEAN BY Zenon DEF TypeOK, Reconfigured
<1>5. changes' \in 0 .. MaxChanges BY DEF TypeOK, Reconfigured
<1> QED BY <1>2, <1>3, <1>4, <1>5 DEF TypeOK, TablesOK

LEMMA EmptyBdtType == EmptyBdt \in Bdts
BY DEF EmptyBdt, Bdts

LEMMA ReplacedType ==
  ASSUME NEW entries \in Messages
  PROVE  Replaced(entries) \in Bdts
<1>1. entries \in Seq(BdtEntries) OBVIOUS
<1>2. \A i \in 1 .. MaxBbmdEntries :
        i <= Len(entries) => entries[i] \in BdtEntries
  BY <1>1
<1> QED BY <1>2 DEF Replaced, Bdts

\* The operations on the tables of a BBMD b.
TableStep(b) ==
  \/ WriteBdt(b) \/ ClearBdt(b) \/ RestoreBdt(b)
  \/ \E e \in Additions : AddBdtEntry(b, e)
  \/ Restart(b) \/ CrashInBackup(b)
  \/ \E f \in Foreign : ListForeignDevice(b, f) \/ UnlistForeignDevice(b, f)

LEMMA TableStepReconfigures ==
  ASSUME NEW b \in Bbmds, TableStep(b)
  PROVE  Reconfigured
BY DEF TableStep, WriteBdt, ClearBdt, RestoreBdt, AddBdtEntry, Restart,
       CrashInBackup, ListForeignDevice, UnlistForeignDevice

LEMMA TableStepTypes ==
  ASSUME TypeOK, NEW b \in Bbmds, TableStep(b)
  PROVE  TablesOK'
<1> USE DEF TypeOK, TablesOK
<1>1. CASE WriteBdt(b)
  BY <1>1, ReplacedType DEF WriteBdt, BackedUp
<1>2. CASE ClearBdt(b)
  BY <1>2, EmptyBdtType DEF ClearBdt, BackedUp
<1>3. CASE RestoreBdt(b) BY <1>3 DEF RestoreBdt
<1>4. ASSUME NEW e \in Additions, AddBdtEntry(b, e) PROVE TablesOK'
  <2>1. PICK i \in FirstEmpty(bdt[b]) :
          /\ bdt' = [bdt EXCEPT ![b][i] = e]
          /\ BackedUp(b, [bdt[b] EXCEPT ![i] = e])
          /\ UNCHANGED fdt
    BY <1>4 DEF AddBdtEntry
  <2>2. [bdt[b] EXCEPT ![i] = e] \in Bdts BY DEF Bdts
  <2>3. bdt' = [bdt EXCEPT ![b] = [bdt[b] EXCEPT ![i] = e]] BY <2>1
  <2> QED BY <2>1, <2>2, <2>3 DEF BackedUp
<1>5. CASE Restart(b) BY <1>5, EmptyBdtType DEF Restart
<1>6. CASE CrashInBackup(b) BY <1>6, EmptyBdtType DEF CrashInBackup
<1>7. ASSUME NEW f \in Foreign,
             ListForeignDevice(b, f) \/ UnlistForeignDevice(b, f)
      PROVE  TablesOK'
  BY <1>7 DEF ListForeignDevice, UnlistForeignDevice
<1> QED BY <1>1, <1>2, <1>3, <1>4, <1>5, <1>6, <1>7 DEF TableStep

\* What a step is: an arrival, a broadcast, or a change of one BBMD's tables.
LEMMA StepCases ==
  ASSUME [Next]_vars
  PROVE  \/ \E m \in BagToSet(net) : Receive(m)
         \/ \E kind \in {"Original", "Distribute"}, h \in Hosts,
               address \in SUBSET Hosts :
              /\ NewBroadcast(h, Sent(kind, h, h, address))
              /\ kind = "Original" => h \in Bbmds \cup Devices
                                       /\ address = LocalBroadcast(h)
              /\ kind = "Distribute" => h \in Foreign
                                       /\ \E b \in Bbmds : address = {b}
         \/ \E b \in Bbmds : TableStep(b)
         \/ UNCHANGED vars
<1>1. CASE Arrival BY <1>1 DEF Arrival
<1>2. ASSUME NEW h \in Bbmds \cup Devices, SendOriginal(h)
      PROVE  \E kind \in {"Original", "Distribute"}, g \in Hosts,
               address \in SUBSET Hosts :
              /\ NewBroadcast(g, Sent(kind, g, g, address))
              /\ kind = "Original" => g \in Bbmds \cup Devices
                                       /\ address = LocalBroadcast(g)
              /\ kind = "Distribute" => g \in Foreign
                                       /\ \E b \in Bbmds : address = {b}
  <2>1. h \in Hosts /\ LocalBroadcast(h) \in SUBSET Hosts
    BY DEF Hosts, LocalBroadcast
  <2> HIDE DEF Hosts
  <2>2. NewBroadcast(h, Sent("Original", h, h, LocalBroadcast(h)))
    BY <1>2 DEF SendOriginal
  <2> QED BY <2>1, <2>2
<1>3. ASSUME NEW f \in Foreign, NEW b \in Bbmds, SendDistribute(f, b)
      PROVE  \E kind \in {"Original", "Distribute"}, g \in Hosts,
               address \in SUBSET Hosts :
              /\ NewBroadcast(g, Sent(kind, g, g, address))
              /\ kind = "Original" => g \in Bbmds \cup Devices
                                       /\ address = LocalBroadcast(g)
              /\ kind = "Distribute" => g \in Foreign
                                       /\ \E c \in Bbmds : address = {c}
  <2>1. f \in Hosts /\ {b} \in SUBSET Hosts BY DEF Hosts
  <2>2. NewBroadcast(f, Sent("Distribute", f, f, {b}))
    BY <1>3 DEF SendDistribute
  <2> QED BY <2>1, <2>2
<1>4. CASE \E b \in Bbmds :
             \/ WriteBdt(b) \/ ClearBdt(b) \/ RestoreBdt(b)
             \/ \E e \in Additions : AddBdtEntry(b, e)
             \/ b \in Restarting /\ (Restart(b) \/ CrashInBackup(b))
             \/ \E f \in Foreign :
                  ListForeignDevice(b, f) \/ UnlistForeignDevice(b, f)
  BY <1>4 DEF TableStep
<1> QED BY <1>1, <1>2, <1>3, <1>4 DEF Next

LEMMA InitTypes == Init => TypeOK
<1> SUFFICES ASSUME Init PROVE TypeOK OBVIOUS
<1>1. BagToSet(net) = {} BY NoCopies DEF Init
<1>2. TablesOK BY EmptyBdtType DEF Init, TablesOK
<1>3. /\ BagToSet(net) \subseteq Copies
      /\ \A m \in BagToSet(net) : net[m] \in 1 .. Buffer
  BY <1>1
<1>4. /\ origin \in Hosts \cup {NoHost}
      /\ delivered \subseteq Hosts /\ repeated \subseteq Devices
  BY DEF Init
<1>5. uniform \in BOOLEAN BY Zenon DEF Init
<1>6. changes \in 0 .. MaxChanges BY DEF Init
<1> QED BY <1>2, <1>3, <1>4, <1>5, <1>6 DEF TablesOK, TypeOK

LEMMA NextTypes == TypeOK /\ [Next]_vars => TypeOK'
<1> SUFFICES ASSUME TypeOK, [Next]_vars PROVE TypeOK' OBVIOUS
<1>1. CASE UNCHANGED vars BY <1>1 DEF TypeOK, vars, BagToSet
<1>2. CASE \E b \in Bbmds : TableStep(b)
  BY <1>2, TableStepReconfigures, TableStepTypes, ReconfiguredTypes
<1> QED BY <1>1, <1>2, StepCases, ReceivedTypes, SentTypes

\* The tables are tables, the copies under way are copies of a broadcast, and
\* of none is there more than a socket holds.
THEOREM TypeCorrect == Spec => []TypeOK
BY InitTypes, NextTypes, PTL DEF Spec

-----------------------------------------------------------------------------
(* The backup file *)

\* A process that has written its backup file, and one whose table is not
\* empty, would restore the table it has (bvlc.cpp:131-168).
THEOREM BackupIsCurrent == Spec => []BackupCurrent
<1>1. Init => BackupCurrent BY DEF Init, BackupCurrent
<1>2. TypeOK /\ BackupCurrent /\ [Next]_vars => BackupCurrent'
  <2> SUFFICES ASSUME TypeOK, BackupCurrent, [Next]_vars
               PROVE  BackupCurrent'
    OBVIOUS
  <2> USE DEF BackupCurrent
  <2>1. CASE UNCHANGED tables BY <2>1 DEF tables
  <2>2. ASSUME NEW b \in Bbmds, TableStep(b) PROVE BackupCurrent'
    <3> USE DEF TypeOK
    <3>1. CASE WriteBdt(b) BY <3>1 DEF WriteBdt, BackedUp
    <3>2. CASE ClearBdt(b) BY <3>2 DEF ClearBdt, BackedUp
    <3>3. CASE RestoreBdt(b) BY <3>3 DEF RestoreBdt
    <3>4. ASSUME NEW e \in Additions, AddBdtEntry(b, e)
          PROVE  BackupCurrent'
      <4>1. PICK i \in FirstEmpty(bdt[b]) :
              /\ bdt' = [bdt EXCEPT ![b][i] = e]
              /\ BackedUp(b, [bdt[b] EXCEPT ![i] = e])
        BY <3>4 DEF AddBdtEntry
      <4>2. bdt' = [bdt EXCEPT ![b] = [bdt[b] EXCEPT ![i] = e]] BY <4>1
      <4> QED BY <4>1, <4>2 DEF BackedUp
    <3>5. CASE Restart(b) BY <3>5 DEF Restart
    <3>6. CASE CrashInBackup(b) BY <3>6 DEF CrashInBackup
    <3>7. ASSUME NEW f \in Foreign,
                 ListForeignDevice(b, f) \/ UnlistForeignDevice(b, f)
          PROVE  BackupCurrent'
      BY <3>7 DEF ListForeignDevice, UnlistForeignDevice
    <3> QED BY <2>2, <3>1, <3>2, <3>3, <3>4, <3>5, <3>6, <3>7 DEF TableStep
  <2>3. ASSUME NEW m \in BagToSet(net), Receive(m) PROVE UNCHANGED tables
    BY <2>3, ReceivedIsArriving DEF TypeOK, Arriving
  <2>4. CASE UNCHANGED vars BY <2>4, <2>1 DEF vars, tables
  <2> QED BY <2>1, <2>2, <2>3, <2>4, StepCases DEF NewBroadcast
<1> QED BY <1>1, <1>2, TypeCorrect, PTL DEF Spec

-----------------------------------------------------------------------------
(* Complete and equal tables *)

\* Every table has a row for every BBMD, and all rows are of one kind of mask.
UniformIs(u) ==
  \A b \in Bbmds :
    /\ \A i \in 1 .. MaxBbmdEntries : bdt[b][i] # NoEntry =>
         bdt[b][i] \in BdtEntries /\ bdt[b][i].unicast = u
    /\ \A c \in Bbmds : \E i \in 1 .. MaxBbmdEntries :
         bdt[b][i] = [bbmd |-> c, unicast |-> u]

LEMMA EntryFields ==
  ASSUME NEW c \in Bbmds, NEW u \in BOOLEAN
  PROVE  /\ [bbmd |-> c, unicast |-> u] \in BdtEntries
         /\ [bbmd |-> c, unicast |-> u].unicast = u
BY Zenon DEF BdtEntries

LEMMA UniformTables ==
  ASSUME TypeOK, Uniform
  PROVE  \E u \in BOOLEAN : UniformIs(u)
<1>1. PICK u \in BOOLEAN : \A b \in Bbmds :
        {bdt[b][i] : i \in 1 .. MaxBbmdEntries} \ {NoEntry}
          = {[bbmd |-> c, unicast |-> u] : c \in Bbmds}
  BY DEF Uniform
<1>2. ASSUME NEW b \in Bbmds, NEW i \in 1 .. MaxBbmdEntries,
             bdt[b][i] # NoEntry
      PROVE  bdt[b][i] \in BdtEntries /\ bdt[b][i].unicast = u
  <2>0. bdt[b][i] \in {bdt[b][j] : j \in 1 .. MaxBbmdEntries} \ {NoEntry}
    BY <1>2
  <2>1. bdt[b][i] \in {[bbmd |-> c, unicast |-> u] : c \in Bbmds}
    BY <1>1, <2>0, Zenon
  <2>2. PICK c \in Bbmds : bdt[b][i] = [bbmd |-> c, unicast |-> u]
    BY <2>1, Zenon
  <2> QED BY <2>2, EntryFields
<1>3. ASSUME NEW b \in Bbmds, NEW c \in Bbmds
      PROVE  \E i \in 1 .. MaxBbmdEntries :
               bdt[b][i] = [bbmd |-> c, unicast |-> u]
  BY <1>1
<1> QED BY <1>2, <1>3 DEF UniformIs

LEMMA OwnAddress ==
  /\ \A c \in Bbmds \cup Devices : c \in LocalBroadcast(c)
  /\ \A e \in BdtEntries : e.bbmd \in Bbmds /\ e.bbmd \in AddressOf(e)
BY DEF LocalBroadcast, AddressOf, Hosts, BdtEntries

\* A row is skipped exactly if it is the BBMD's own.
LEMMA RowsForwarded ==
  ASSUME TypeOK, NEW b \in Bbmds, NEW i \in 1 .. MaxBbmdEntries,
         bdt[b][i] \in BdtEntries
  PROVE  i \in RowsToForwardTo(b) <=> bdt[b][i].bbmd # b
<1> DEFINE e == bdt[b][i]
<1>1. e \in BdtEntries /\ e # NoEntry OBVIOUS
<1> HIDE DEF e
<1>2. e.bbmd \in Bbmds BY <1>1 DEF BdtEntries
<1>3. i \in RowsToForwardTo(b)
        <=> AddressOf(e) # {b} /\ AddressOf(e) # LocalBroadcast(b)
  BY <1>1 DEF RowsToForwardTo, e
<1>4. CASE e.bbmd = b
  BY <1>3, <1>4 DEF AddressOf, e
<1>5. CASE e.bbmd # b
  <2>1. e.bbmd \in AddressOf(e) BY <1>1, OwnAddress
  <2>2. SubnetOf[e.bbmd] # SubnetOf[b] BY <1>2, <1>5
  <2>3. e.bbmd \notin LocalBroadcast(b) BY <2>2 DEF LocalBroadcast
  <2> QED BY <1>3, <1>5, <2>1, <2>3 DEF e
<1> QED BY <1>4, <1>5

LEMMA UniformRows ==
  ASSUME TypeOK, NEW u \in BOOLEAN, UniformIs(u), NEW b \in Bbmds
  PROVE  /\ \A h \in Reached(b) :
              /\ \E c \in Bbmds \ {b} : SubnetOf[h] = SubnetOf[c]
              /\ u => h \in Bbmds
         /\ \A c \in Bbmds \ {b} :
              /\ c \in Reached(b)
              /\ ~ u => LocalBroadcast(c) \subseteq Reached(b)
         /\ \A c \in Bbmds : MemberMaskIsUnicast(b, c) <=> (c # b /\ u)
<1>1. ASSUME NEW h \in Reached(b)
      PROVE  /\ \E c \in Bbmds \ {b} : SubnetOf[h] = SubnetOf[c]
             /\ u => h \in Bbmds
  <2>1. PICK i \in RowsToForwardTo(b) : h \in AddressOf(bdt[b][i])
    BY DEF Reached, RowsReaching
  <2>2. i \in 1 .. MaxBbmdEntries /\ bdt[b][i] # NoEntry
    BY <2>1 DEF RowsToForwardTo
  <2>3. bdt[b][i] \in BdtEntries /\ bdt[b][i].unicast = u
    BY <2>2 DEF UniformIs
  <2>4. bdt[b][i].bbmd \in Bbmds \ {b}
    BY <2>1, <2>2, <2>3, RowsForwarded, OwnAddress
  <2> QED BY <2>1, <2>3, <2>4 DEF AddressOf, LocalBroadcast
<1>2. ASSUME NEW c \in Bbmds \ {b}
      PROVE  /\ c \in Reached(b)
             /\ ~ u => LocalBroadcast(c) \subseteq Reached(b)
  <2>1. PICK i \in 1 .. MaxBbmdEntries :
          bdt[b][i] = [bbmd |-> c, unicast |-> u]
    BY DEF UniformIs
  <2>2. bdt[b][i] \in BdtEntries /\ bdt[b][i].bbmd # b
    BY <2>1 DEF BdtEntries
  <2>3. i \in RowsToForwardTo(b) BY <2>2, RowsForwarded
  <2>4. AddressOf(bdt[b][i]) = IF u THEN {c} ELSE LocalBroadcast(c)
    BY <2>1 DEF AddressOf
  <2>5. c \in Hosts /\ c \in LocalBroadcast(c) BY OwnAddress DEF Hosts
  <2>6. LocalBroadcast(c) \subseteq Hosts BY DEF LocalBroadcast
  <2> QED BY <2>3, <2>4, <2>5, <2>6 DEF Reached, RowsReaching
<1>3. ASSUME NEW c \in Bbmds
      PROVE  MemberMaskIsUnicast(b, c) <=> (c # b /\ u)
  <2>1. DOMAIN bdt[b] = 1 .. MaxBbmdEntries BY DEF TypeOK, Bdts
  <2>2. ASSUME MemberMaskIsUnicast(b, c) PROVE u
    <3> DEFINE e == [bbmd |-> c, unicast |-> TRUE]
    <3>0. e \in {bdt[b][i] : i \in 1 .. MaxBbmdEntries}
      BY <2>1, <2>2, Zenon DEF MemberMaskIsUnicast
    <3>1. PICK i \in 1 .. MaxBbmdEntries : bdt[b][i] = e BY <3>0, Zenon
    <3>5. e \in BdtEntries /\ e.unicast = TRUE BY EntryFields, Zenon
    <3> HIDE DEF e
    <3>2. bdt[b][i] \in BdtEntries /\ bdt[b][i].unicast = TRUE
      BY <3>1, <3>5
    <3>3. bdt[b][i] # NoEntry BY <3>2
    <3>4. bdt[b][i].unicast = u BY <3>3 DEF UniformIs
    <3> QED BY <3>2, <3>4, Zenon
  <2>3. ASSUME u, c # b PROVE MemberMaskIsUnicast(b, c)
    <3>1. PICK i \in 1 .. MaxBbmdEntries :
            bdt[b][i] = [bbmd |-> c, unicast |-> u]
      BY DEF UniformIs
    <3> QED BY <2>1, <2>3, <3>1 DEF MemberMaskIsUnicast
  <2> QED BY <2>2, <2>3 DEF MemberMaskIsUnicast
<1> QED BY <1>1, <1>2, <1>3

\* Without a row twice, a table sends one copy to each host it reaches.
LEMMA OneRow ==
  ASSUME TypeOK, NEW u \in BOOLEAN, UniformIs(u), NoRowTwice,
         NEW b \in Bbmds, NEW h \in Reached(b)
  PROVE  Cardinality(RowsReaching(b, h)) = 1
<1>1. PICK i \in RowsReaching(b, h) : TRUE BY DEF Reached
<1>2. ASSUME NEW j \in RowsReaching(b, h) PROVE j = i
  <2> DEFINE r == bdt[b][i]
             q == bdt[b][j]
  <2>1. /\ i \in 1 .. MaxBbmdEntries /\ r # NoEntry
        /\ h \in AddressOf(r)
        /\ j \in 1 .. MaxBbmdEntries /\ q # NoEntry
        /\ h \in AddressOf(q)
    BY <1>1, <1>2 DEF RowsReaching, RowsToForwardTo
  <2>2. /\ r \in BdtEntries /\ r.unicast = u
        /\ q \in BdtEntries /\ q.unicast = u
    BY <2>1 DEF UniformIs
  <2> HIDE DEF r, q
  <2>3. r.bbmd \in Bbmds /\ q.bbmd \in Bbmds
    BY <2>2 DEF BdtEntries
  <2>4. r.bbmd = q.bbmd
    <3>1. CASE u BY <2>1, <2>2, <3>1 DEF AddressOf
    <3>2. CASE ~ u
      <4>1. SubnetOf[r.bbmd] = SubnetOf[q.bbmd]
        BY <2>1, <2>2, <3>2 DEF AddressOf, LocalBroadcast
      <4> QED BY <2>3, <4>1
    <3> QED BY <3>1, <3>2
  <2>5. r = q BY <2>2, <2>4 DEF BdtEntries
  <2> QED BY <2>1, <2>5 DEF NoRowTwice, r, q
<1>3. RowsReaching(b, h) = {i} BY <1>1, <1>2
<1> QED BY <1>3, FS_Singleton

\* Nor does the answer to one copy hold two for a host, unless he is listed:
\* the hosts on the BBMD's own subnet are not reached by its table.
LEMMA AnswerOnce ==
  ASSUME TypeOK, NEW u \in BOOLEAN, UniformIs(u), NoRowTwice,
         NEW m \in Copies, m.to \in Bbmds,
         NEW x \in BagToSet(Answer(m)), x.to \notin fdt[m.to]
  PROVE  Answer(m)[x] = 1
<1> DEFINE L == LocalBroadcast(m.to)
           F == fdt[m.to] \ {SourceOf(m)}
           local == Sent("Forwarded", m.to, SourceOf(m), L)
           bdts == ForwardedToBdt(m.to, SourceOf(m))
           fds == Sent("Forwarded", m.to, SourceOf(m), F)
<1>1. /\ BagToSet(local) = CopiesTo("Forwarded", m.to, SourceOf(m), L)
      /\ \A y \in BagToSet(local) : local[y] = 1
  <2> HIDE DEF L
  <2> QED BY SentFacts
<1>2. /\ BagToSet(bdts)
           = CopiesTo("Forwarded", m.to, SourceOf(m), Reached(m.to))
      /\ \A y \in BagToSet(bdts) :
           bdts[y] = Cardinality(RowsReaching(m.to, y.to))
  BY BdtFacts
<1>3. BagToSet(fds) = CopiesTo("Forwarded", m.to, SourceOf(m), F)
  <2> HIDE DEF F
  <2> QED BY SentFacts
<1>4. x \notin BagToSet(fds)
  <2>1. x.to \notin F OBVIOUS
  <2> HIDE DEF F, fds
  <2> QED BY <1>3, <2>1 DEF CopiesTo
<1>5. ASSUME x \in BagToSet(bdts)
      PROVE  bdts[x] = 1 /\ x \notin BagToSet(local)
  <2>1. x.to \in Reached(m.to) BY <1>2, <1>5 DEF CopiesTo
  <2>2. Cardinality(RowsReaching(m.to, x.to)) = 1 BY <2>1, OneRow
  <2>3. PICK c \in Bbmds \ {m.to} : SubnetOf[x.to] = SubnetOf[c]
    BY <2>1, UniformRows
  <2>4. SubnetOf[c] # SubnetOf[m.to] BY <2>3
  <2>5. x.to \notin L BY <2>3, <2>4 DEF LocalBroadcast
  <2> HIDE DEF L, local, bdts
  <2> QED BY <1>1, <1>2, <1>5, <2>2, <2>5 DEF CopiesTo
<1>6. m.kind \in {"Original", "Distribute", "Forwarded"} BY DEF Copies
<1>7. CASE m.kind = "Original"
  <2>1. Answer(m) = bdts (+) fds
    BY <1>7 DEF Answer, ForwardedToFdt, SourceOf
  <2> HIDE DEF bdts, fds
  <2>2. x \in BagToSet(bdts) BY <1>4, <2>1, SumFacts
  <2>3. bdts[x] = 1 BY <1>5, <2>2
  <2> QED BY <1>4, <2>1, <2>2, <2>3, SumFacts
<1>8. CASE m.kind = "Distribute"
  <2>1. Answer(m) = (local (+) bdts) (+) fds
    BY <1>8 DEF Answer, ForwardedToFdt, ForwardedLocally, SourceOf
  <2> HIDE DEF bdts, fds, local
  <2>2. x \in BagToSet(local (+) bdts) BY <1>4, <2>1, SumFacts
  <2>3. (local (+) bdts)[x] = 1
    <3>1. CASE x \in BagToSet(bdts)
      <4>1. bdts[x] = 1 /\ x \notin BagToSet(local) BY <1>5, <3>1
      <4> QED BY <3>1, <4>1, SumFacts
    <3>2. CASE x \notin BagToSet(bdts)
      <4>1. x \in BagToSet(local) BY <2>2, <3>2, SumFacts
      <4>2. local[x] = 1 BY <1>1, <4>1
      <4> QED BY <3>2, <4>1, <4>2, SumFacts
    <3> QED BY <3>1, <3>2
  <2> QED BY <1>4, <2>1, <2>2, <2>3, SumFacts
<1>9. CASE m.kind = "Forwarded"
  <2> DEFINE first == IF MemberMaskIsUnicast(m.to, m.from) THEN local
                                                           ELSE EmptyBag
  <2>1. Answer(m) = first (+) fds
    BY <1>9 DEF Answer, ForwardedToFdt, ForwardedLocally, SourceOf
  <2> HIDE DEF fds, local
  <2>2. BagToSet(first) \subseteq BagToSet(local) BY NoCopies
  <2>3. \A y \in BagToSet(first) : first[y] = 1 BY <1>1, NoCopies
  <2> HIDE DEF first
  <2>4. x \in BagToSet(first) BY <1>4, <2>1, SumFacts
  <2>5. first[x] = 1 BY <2>3, <2>4
  <2> QED BY <1>4, <2>1, <2>4, <2>5, SumFacts
<1> QED BY <1>6, <1>7, <1>8, <1>9

-----------------------------------------------------------------------------
(* What a copy will become *)

\* m will be broadcast on b's subnet, by b or, as directed broadcast, by the
\* BBMD that receives m.
Spreads(m, b) ==
  /\ m.to \in Bbmds
  /\ \/ m.kind = "Original" /\ m.to # b
     \/ m.kind = "Distribute"
     \/ m.kind = "Forwarded" /\ m.to = b /\ MemberMaskIsUnicast(b, m.from)

\* m is, or will lead to, a copy for t.
Bound(m, t) ==
  \/ m.to = t /\ m.kind # "Distribute"
  \/ \E b \in Bbmds : SubnetOf[b] = SubnetOf[t] /\ Spreads(m, b)
  \/ \E b \in Bbmds : t \in fdt[b] /\ (m.to = b \/ Spreads(m, b))

\* A copy under way is one of the last broadcast.
OfBroadcast(m) ==
  /\ m.source = origin
  /\ m.kind # "Forwarded" => m.from = origin
  /\ m.kind = "Distribute" => m.to \in Bbmds
  /\ m.kind = "Forwarded" => m.from \in Bbmds

OneBroadcast == \A m \in BagToSet(net) : OfBroadcast(m)

NobodyForgotten ==
  \A t \in (Bbmds \cup Devices \cup Listed) \ {origin} :
    t \in delivered \/ \E m \in BagToSet(net) : Bound(m, t)

NobodyTwice ==
  /\ repeated = {}
  /\ \A d \in Devices : \A m \in BagToSet(net) : Bound(m, d) =>
       /\ net[m] = 1 /\ d \notin delivered
       /\ \A x \in BagToSet(net) : Bound(x, d) => x = m

SettledInv ==
  Settled => /\ Uniform
             /\ NobodyForgotten
             /\ NoRowTwice => NobodyTwice

IInv == TypeOK /\ OneBroadcast /\ SettledInv

\* The copies of the answer, each with the host it is for.
LEMMA AnswerCopies ==
  ASSUME NEW m \in Copies, m.to \in Bbmds
  PROVE  /\ \A x \in BagToSet(Answer(m)) :
              /\ x.kind = "Forwarded" /\ x.from = m.to
              /\ x.source = SourceOf(m) /\ x.to \in AnsweredTo(m)
         /\ \A h \in AnsweredTo(m) : \E x \in BagToSet(Answer(m)) :
              /\ x.kind = "Forwarded" /\ x.from = m.to
              /\ x.source = SourceOf(m) /\ x.to = h
         /\ \A x, y \in BagToSet(Answer(m)) : x.to = y.to => x = y
<1> DEFINE S == AnsweredTo(m)
<1>1. BagToSet(Answer(m)) = CopiesTo("Forwarded", m.to, SourceOf(m), S)
  BY AnswerFacts
<1> HIDE DEF S
<1>2. /\ \A x \in BagToSet(Answer(m)) :
           /\ x.kind = "Forwarded" /\ x.from = m.to
           /\ x.source = SourceOf(m) /\ x.to \in S
      /\ \A x, y \in BagToSet(Answer(m)) : x.to = y.to => x = y
  BY <1>1 DEF CopiesTo
<1>3. ASSUME NEW h \in S
      PROVE  \E x \in BagToSet(Answer(m)) :
               /\ x.kind = "Forwarded" /\ x.from = m.to
               /\ x.source = SourceOf(m) /\ x.to = h
  <2> DEFINE x == [kind |-> "Forwarded", from |-> m.to,
                   source |-> SourceOf(m), to |-> h]
  <2>1. x \in BagToSet(Answer(m)) BY <1>1 DEF CopiesTo
  <2> QED BY <2>1
<1> QED BY <1>2, <1>3 DEF S

\* Whoever a copy is bound for receives it or is sent another that is.
LEMMA BoundLeadsOn ==
  ASSUME TypeOK, NEW u \in BOOLEAN, UniformIs(u),
         NEW m \in Copies, OfBroadcast(m),
         NEW t \in (Bbmds \cup Devices \cup Listed) \ {origin}, Bound(m, t)
  PROVE  t \in Heard(m) \/ \E x \in BagToSet(Answer(m)) : Bound(x, t)
<1>0. SourceOf(m) = origin BY DEF OfBroadcast, SourceOf
<1>1. t \in Hosts BY DEF Hosts, Listed, TypeOK
<1>2. m.kind \in {"Original", "Distribute", "Forwarded"} BY DEF Copies
<1>3. ASSUME m.to \in Bbmds, t \in AnsweredTo(m)
      PROVE  \E x \in BagToSet(Answer(m)) : Bound(x, t)
  <2>1. PICK x \in BagToSet(Answer(m)) : x.kind = "Forwarded" /\ x.to = t
    BY <1>3, AnswerCopies
  <2> QED BY <2>1 DEF Bound
<1>4. CASE m.to = t /\ m.kind # "Distribute"
  BY <1>4 DEF Heard, OfBroadcast
<1>5. ASSUME NEW b \in Bbmds, SubnetOf[b] = SubnetOf[t], Spreads(m, b)
      PROVE  \E x \in BagToSet(Answer(m)) : Bound(x, t)
  <2>1. m.to \in Bbmds BY <1>5 DEF Spreads
  <2>2. t \in LocalBroadcast(b) BY <1>1, <1>5 DEF LocalBroadcast
  <2>3. CASE m.to = b
    <3>1. Locally(m) BY <1>5, <2>3 DEF Spreads, Locally
    <3> QED BY <1>3, <2>1, <2>2, <2>3, <3>1 DEF AnsweredTo
  <2>4. CASE m.to # b
    <3>1. ToBdt(m) BY <1>5, <2>4 DEF Spreads, ToBdt
    <3>2. Reached(m.to) \subseteq AnsweredTo(m) BY <3>1 DEF AnsweredTo
    <3>3. CASE u
      <4>1. b \in AnsweredTo(m) BY <2>1, <2>4, <3>2, UniformRows
      <4>2. PICK x \in BagToSet(Answer(m)) :
              x.kind = "Forwarded" /\ x.from = m.to /\ x.to = b
        BY <2>1, <4>1, AnswerCopies
      <4>3. MemberMaskIsUnicast(b, m.to) BY <2>1, <2>4, <3>3, UniformRows
      <4> QED BY <1>5, <4>2, <4>3 DEF Bound, Spreads
    <3>4. CASE ~ u
      <4>1. t \in AnsweredTo(m) BY <2>1, <2>2, <2>4, <3>2, <3>4, UniformRows
      <4> QED BY <1>3, <2>1, <4>1
    <3> QED BY <3>3, <3>4
  <2> QED BY <2>3, <2>4
<1>6. ASSUME NEW b \in Bbmds, t \in fdt[b], m.to = b \/ Spreads(m, b)
      PROVE  \E x \in BagToSet(Answer(m)) : Bound(x, t)
  <2>1. m.to \in Bbmds BY <1>6 DEF Spreads
  <2>2. CASE m.to = b
    BY <1>0, <1>3, <1>6, <2>1, <2>2 DEF AnsweredTo
  <2>3. CASE m.to # b
    <3>1. ToBdt(m) BY <1>6, <2>3 DEF Spreads, ToBdt
    <3>2. b \in AnsweredTo(m) BY <2>1, <2>3, <3>1, UniformRows DEF AnsweredTo
    <3>3. PICK x \in BagToSet(Answer(m)) : x.to = b
      BY <2>1, <3>2, AnswerCopies
    <3> QED BY <1>6, <3>3 DEF Bound
  <2> QED BY <2>2, <2>3
<1> QED BY <1>4, <1>5, <1>6 DEF Bound

\* A copy that is bound for a device comes from one that was, and an answer
\* has at most one, of which there is one.
LEMMA BoundComesFrom ==
  ASSUME TypeOK, NEW u \in BOOLEAN, UniformIs(u),
         NEW m \in Copies, NEW d \in Devices,
         NEW x \in BagToSet(Answer(m)), Bound(x, d)
  PROVE  /\ m.to \in Bbmds
         /\ x.to \notin fdt[m.to]
         /\ Bound(m, d)
         /\ \A y \in BagToSet(Answer(m)) : Bound(y, d) => y = x
<1>1. m.to \in Bbmds BY AnswerFacts
<1>2. PICK c \in Bbmds : SubnetOf[d] = SubnetOf[c] OBVIOUS
<1>3. \A b \in Bbmds : d \notin fdt[b] BY DEF TypeOK
\* Bound for a device: to it, or to its BBMD to be broadcast.
<1>4. ASSUME NEW y \in BagToSet(Answer(m)), Bound(y, d)
      PROVE  /\ y.to = IF c # m.to /\ u THEN c ELSE d
             /\ c = m.to => Locally(m)
             /\ c # m.to => ToBdt(m)
  <2>1. /\ y.kind = "Forwarded" /\ y.from = m.to
        /\ y.to \in AnsweredTo(m)
    BY <1>1, <1>4, AnswerCopies
  <2>2. y.to = d \/ (y.to = c /\ MemberMaskIsUnicast(c, m.to))
    <3>1. ASSUME NEW b \in Bbmds, SubnetOf[b] = SubnetOf[d], Spreads(y, b)
          PROVE  y.to = c /\ MemberMaskIsUnicast(c, m.to)
      <4>1. b = c BY <1>2, <3>1
      <4> QED BY <2>1, <3>1, <4>1 DEF Spreads
    <3>2. CASE y.to = d BY <3>2
    <3>3. CASE \E b \in Bbmds : SubnetOf[b] = SubnetOf[d] /\ Spreads(y, b)
      BY <3>1, <3>3
    <3>4. ~ \E b \in Bbmds : d \in fdt[b] /\ (y.to = b \/ Spreads(y, b))
      BY <1>3
    <3> QED BY <1>4, <3>2, <3>3, <3>4 DEF Bound
  <2>3. y.to \notin Foreign BY <2>2
  <2>4. y.to \notin fdt[m.to] BY <1>1, <2>3 DEF TypeOK
  <2>5. \/ Locally(m) /\ y.to \in LocalBroadcast(m.to)
        \/ ToBdt(m) /\ y.to \in Reached(m.to)
    BY <2>1, <2>4 DEF AnsweredTo
  <2>6. SubnetOf[y.to] = SubnetOf[c] BY <1>2, <2>2
  <2>7. CASE Locally(m) /\ y.to \in LocalBroadcast(m.to)
    <3>1. SubnetOf[m.to] = SubnetOf[c] BY <2>6, <2>7 DEF LocalBroadcast
    <3>2. m.to = c BY <1>1, <3>1
    <3>3. ~ MemberMaskIsUnicast(c, m.to) BY <3>2 DEF MemberMaskIsUnicast
    <3> QED BY <2>2, <2>7, <3>2, <3>3
  <2>8. CASE ToBdt(m) /\ y.to \in Reached(m.to)
    <3>1. PICK e \in Bbmds \ {m.to} : SubnetOf[y.to] = SubnetOf[e]
      BY <1>1, <2>8, UniformRows
    <3>2. e = c BY <2>6, <3>1
    <3>3. c # m.to BY <3>1, <3>2
    <3>4. CASE u
      <4>1. y.to \in Bbmds BY <1>1, <2>8, <3>4, UniformRows
      <4>2. y.to = c BY <2>2, <4>1
      <4> QED BY <2>8, <3>3, <3>4, <4>2
    <3>5. CASE ~ u
      <4>1. ~ MemberMaskIsUnicast(c, m.to) BY <1>1, <3>5, UniformRows
      <4> QED BY <2>2, <2>8, <3>3, <3>5, <4>1
    <3> QED BY <3>4, <3>5
  <2> QED BY <2>5, <2>7, <2>8
<1>5. \A y \in BagToSet(Answer(m)) : Bound(y, d) => y = x
  BY <1>1, <1>4, AnswerCopies
<1>6. x.to \notin fdt[m.to]
  <2>1. x.to \notin Foreign BY <1>4
  <2> QED BY <1>1, <2>1 DEF TypeOK
<1>7. Bound(m, d)
  <2>1. CASE c = m.to
    <3>1. Locally(m) BY <1>4, <2>1
    <3>2. Spreads(m, c) BY <1>1, <2>1, <3>1 DEF Spreads, Locally
    <3> QED BY <1>2, <3>2 DEF Bound
  <2>2. CASE c # m.to
    <3>1. ToBdt(m) BY <1>4, <2>2
    <3>2. Spreads(m, c) BY <1>1, <2>2, <3>1 DEF Spreads, ToBdt
    <3> QED BY <1>2, <3>2 DEF Bound
  <2> QED BY <2>1, <2>2
<1> QED BY <1>1, <1>5, <1>6, <1>7

-----------------------------------------------------------------------------
(* The inductive invariant *)

LEMMA TablesKept ==
  ASSUME UNCHANGED tables
  PROVE  /\ Uniform' = Uniform /\ NoRowTwice' = NoRowTwice /\ Listed' = Listed
         /\ \A m, t : Bound(m, t)' <=> Bound(m, t)
<1> USE DEF tables
<1>1. Uniform' = Uniform BY DEF Uniform
<1>2. NoRowTwice' = NoRowTwice BY DEF NoRowTwice
<1>3. Listed' = Listed BY DEF Listed
<1>4. \A m, t : Bound(m, t)' <=> Bound(m, t)
  BY DEF Bound, Spreads, MemberMaskIsUnicast
<1> QED BY <1>1, <1>2, <1>3, <1>4

LEMMA ReceivedOneBroadcast ==
  ASSUME TypeOK, OneBroadcast, NEW m \in BagToSet(net), Receive(m)
  PROVE  OneBroadcast'
<1>1. m \in Copies /\ OfBroadcast(m) BY DEF TypeOK, OneBroadcast
<1>2. Arriving(m, Answer(m), Heard(m)) BY <1>1, ReceivedIsArriving
<1>3. NetOK BY DEF TypeOK, NetOK
<1>4. origin' = origin BY <1>2 DEF Arriving
<1>5. \A x \in BagToSet(net') :
        x \in BagToSet(Answer(m)) \/ x \in BagToSet(net)
  BY <1>1, <1>2, <1>3, AnswerFacts, ArrivingNet
<1>6. ASSUME NEW x \in BagToSet(Answer(m)) PROVE OfBroadcast(x)
  <2>1. m.to \in Bbmds BY <1>1, AnswerFacts
  <2>2. x.kind = "Forwarded" /\ x.from = m.to /\ x.source = SourceOf(m)
    BY <1>1, <2>1, AnswerCopies
  <2>3. SourceOf(m) = origin BY <1>1 DEF SourceOf, OfBroadcast
  <2> QED BY <2>1, <2>2, <2>3 DEF OfBroadcast
<1>7. \A x \in BagToSet(net') : OfBroadcast(x)
  BY <1>5, <1>6 DEF OneBroadcast
<1> QED BY <1>4, <1>7 DEF OneBroadcast, OfBroadcast

LEMMA ReceivedForgetsNobody ==
  ASSUME TypeOK, OneBroadcast, NEW u \in BOOLEAN, UniformIs(u),
         NobodyForgotten, NEW m \in BagToSet(net), Receive(m)
  PROVE  NobodyForgotten'
<1>1. m \in Copies /\ OfBroadcast(m) BY DEF TypeOK, OneBroadcast
<1>2. Arriving(m, Answer(m), Heard(m)) BY <1>1, ReceivedIsArriving
<1>3. NetOK BY DEF TypeOK, NetOK
<1>4. origin' = origin /\ delivered' = delivered \cup Heard(m)
  BY <1>2 DEF Arriving
<1>5. /\ BagToSet(Answer(m)) \subseteq BagToSet(net')
      /\ \A x \in BagToSet(net) : x # m => x \in BagToSet(net')
  BY <1>1, <1>2, <1>3, AnswerFacts, ArrivingNet
<1>6. UNCHANGED tables BY <1>2 DEF Arriving
<1>7. ASSUME NEW t \in (Bbmds \cup Devices \cup Listed) \ {origin}
      PROVE  t \in delivered' \/ \E x \in BagToSet(net') : Bound(x, t)
  <2>1. CASE t \in delivered BY <1>4, <2>1
  <2>2. ASSUME NEW x \in BagToSet(net), Bound(x, t)
        PROVE  t \in delivered' \/ \E y \in BagToSet(net') : Bound(y, t)
    <3>1. CASE x # m BY <1>5, <2>2, <3>1
    <3>2. CASE x = m
      <4>1. t \in Heard(m) \/ \E y \in BagToSet(Answer(m)) : Bound(y, t)
        BY <1>1, <2>2, <3>2, BoundLeadsOn
      <4> QED BY <1>4, <1>5, <4>1
    <3> QED BY <3>1, <3>2
  <2> QED BY <2>1, <2>2 DEF NobodyForgotten
<1>8. /\ Listed' = Listed
      /\ \A x, t : Bound(x, t)' <=> Bound(x, t)
  BY <1>6, TablesKept
<1> QED BY <1>4, <1>7, <1>8 DEF NobodyForgotten

LEMMA ReceivedNobodyTwice ==
  ASSUME TypeOK, OneBroadcast, NEW u \in BOOLEAN, UniformIs(u), NoRowTwice,
         NobodyTwice, NEW m \in BagToSet(net), Receive(m)
  PROVE  NobodyTwice'
<1>1. m \in Copies /\ OfBroadcast(m) BY DEF TypeOK, OneBroadcast
<1>2. Arriving(m, Answer(m), Heard(m)) BY <1>1, ReceivedIsArriving
<1>3. NetOK BY DEF TypeOK, NetOK
<1>4. /\ delivered' = delivered \cup Heard(m)
      /\ repeated' = repeated \cup (Heard(m) \cap delivered \cap Devices)
      /\ UNCHANGED tables
  BY <1>2 DEF Arriving
<1>5. /\ \A x \in BagToSet(net') :
           \/ x \in BagToSet(Answer(m))
           \/ x \in BagToSet(net) /\ (x = m => net[m] > 1)
      /\ \A x \in BagToSet(net') :
           x \notin BagToSet(Answer(m)) /\ net[x] = 1 => net'[x] = 1
      /\ \A x \in BagToSet(Answer(m)) :
           Answer(m)[x] = 1 /\ (x \in BagToSet(net) => x = m /\ net[m] = 1)
             => net'[x] = 1
  BY <1>1, <1>2, <1>3, AnswerFacts, ArrivingNet
\* The copy a device hears is bound for it, and nothing answers it.
<1>6. ASSUME NEW d \in Devices, d \in Heard(m)
      PROVE  Bound(m, d) /\ BagToSet(Answer(m)) = {}
  <2>1. m.to = d /\ m.to \notin Bbmds BY <1>6 DEF Heard
  <2>2. m.kind # "Distribute" BY <1>1, <2>1 DEF OfBroadcast
  <2> QED BY <1>1, <2>1, <2>2, AnswerFacts DEF Bound
<1>7. repeated' = {}
  <2>1. \A d \in Devices : d \in Heard(m) => d \notin delivered
    BY <1>6 DEF NobodyTwice
  <2> QED BY <1>4, <2>1 DEF NobodyTwice
<1>8. ASSUME NEW d \in Devices, NEW x \in BagToSet(net'), Bound(x, d)
      PROVE  /\ net'[x] = 1 /\ d \notin delivered'
             /\ \A y \in BagToSet(net') : Bound(y, d) => y = x
  <2>1. CASE \E y \in BagToSet(Answer(m)) : Bound(y, d)
    <3>1. PICK y \in BagToSet(Answer(m)) : Bound(y, d) BY <2>1
    <3>2. /\ m.to \in Bbmds /\ y.to \notin fdt[m.to]
          /\ Bound(m, d)
          /\ \A z \in BagToSet(Answer(m)) : Bound(z, d) => z = y
      BY <1>1, <3>1, BoundComesFrom
    <3>3. /\ net[m] = 1 /\ d \notin delivered
          /\ \A z \in BagToSet(net) : Bound(z, d) => z = m
      BY <3>2 DEF NobodyTwice
    <3>4. \A z \in BagToSet(net') : Bound(z, d) => z = y
      BY <1>5, <3>2, <3>3
    <3>5. Answer(m)[y] = 1 BY <1>1, <3>1, <3>2, AnswerOnce
    <3>6. net'[y] = 1 BY <1>5, <3>1, <3>3, <3>5
    <3>7. d \notin Heard(m) BY <1>6, <3>1
    <3>8. x = y BY <1>8, <3>4
    <3> QED BY <1>4, <3>3, <3>4, <3>6, <3>7, <3>8
  <2>2. CASE ~ \E y \in BagToSet(Answer(m)) : Bound(y, d)
    <3>1. \A y \in BagToSet(net') : Bound(y, d) =>
            y \in BagToSet(net) /\ (y = m => net[m] > 1)
      BY <1>5, <2>2
    <3>2. x \in BagToSet(net) /\ x \notin BagToSet(Answer(m))
      BY <1>8, <2>2, <3>1
    <3>3. /\ net[x] = 1 /\ d \notin delivered
          /\ \A y \in BagToSet(net) : Bound(y, d) => y = x
      BY <1>8, <3>2 DEF NobodyTwice
    <3>4. net'[x] = 1 BY <1>5, <3>2, <3>3
    <3>5. d \notin Heard(m)
      <4>1. SUFFICES ASSUME d \in Heard(m) PROVE FALSE OBVIOUS
      <4>2. m = x BY <1>6, <3>3, <4>1
      <4> QED BY <1>8, <3>1, <3>3, <4>2
    <3> QED BY <1>4, <3>1, <3>3, <3>4, <3>5
  <2> QED BY <2>1, <2>2
<1>9. \A x, t : Bound(x, t)' <=> Bound(x, t) BY <1>4, TablesKept
<1> QED BY <1>7, <1>8, <1>9 DEF NobodyTwice

LEMMA ReceivedInv ==
  ASSUME IInv, NEW m \in BagToSet(net), Receive(m)
  PROVE  IInv'
<1> USE DEF IInv
<1>1. TypeOK' BY ReceivedTypes
<1>2. OneBroadcast' BY ReceivedOneBroadcast
<1>3. m \in Copies BY DEF TypeOK
<1>4. UNCHANGED <<uniform, changes>> /\ UNCHANGED tables
  BY <1>3, ReceivedIsArriving DEF Arriving
<1>5. Settled' = Settled BY <1>4 DEF Settled
<1>6. Uniform' = Uniform /\ NoRowTwice' = NoRowTwice BY <1>4, TablesKept
<1>7. ASSUME Settled PROVE Uniform /\ NobodyForgotten'
                           /\ (NoRowTwice => NobodyTwice')
  <2>1. Uniform /\ NobodyForgotten /\ (NoRowTwice => NobodyTwice)
    BY <1>7 DEF SettledInv
  <2>2. PICK u \in BOOLEAN : UniformIs(u) BY <2>1, UniformTables
  <2> QED BY <2>1, <2>2, ReceivedForgetsNobody, ReceivedNobodyTwice
<1>8. SettledInv' BY <1>5, <1>6, <1>7 DEF SettledInv
<1> QED BY <1>1, <1>2, <1>8

\* A new broadcast: the sender's subnet has a BBMD, which has a copy.
LEMMA SentInv ==
  ASSUME IInv, NEW kind \in {"Original", "Distribute"}, NEW h \in Hosts,
         NEW address \in SUBSET Hosts,
         NewBroadcast(h, Sent(kind, h, h, address)),
         \/ /\ kind = "Original" /\ h \in Bbmds \cup Devices
            /\ address = LocalBroadcast(h)
         \/ /\ kind = "Distribute" /\ h \in Foreign
            /\ \E b \in Bbmds : address = {b}
  PROVE  IInv'
<1> USE DEF IInv
<1>1. TypeOK' BY SentTypes
<1>2. /\ BagToSet(net') = CopiesTo(kind, h, h, address)
      /\ \A x \in BagToSet(net') : net'[x] = 1
      /\ UNCHANGED tables
      /\ origin' = h /\ delivered' = {} /\ repeated' = {}
      /\ uniform' = Uniform
  BY SentFacts DEF NewBroadcast
<1>3. /\ \A x \in BagToSet(net') : /\ x.kind = kind /\ x.from = h
                                    /\ x.source = h /\ x.to \in address
      /\ \A g \in address : \E x \in BagToSet(net') : x.kind = kind /\ x.to = g
      /\ \A x, y \in BagToSet(net') : x.to = y.to => x = y
  <2>1. ASSUME NEW g \in address
        PROVE  \E x \in BagToSet(net') : x.kind = kind /\ x.to = g
    <3> DEFINE x == [kind |-> kind, from |-> h, source |-> h, to |-> g]
    <3>1. x \in BagToSet(net') BY <1>2 DEF CopiesTo
    <3> QED BY <3>1
  <2> QED BY <1>2, <2>1 DEF CopiesTo
<1>4. OneBroadcast'
  <2>1. \A x \in BagToSet(net') : /\ x.source = origin' /\ x.from = origin'
                                  /\ x.kind = "Distribute" => x.to \in Bbmds
                                  /\ x.kind # "Forwarded"
    BY <1>2, <1>3
  <2> QED BY <2>1 DEF OneBroadcast, OfBroadcast
<1>5. ASSUME NEW t \in (Bbmds \cup Devices \cup Listed) \ {h}
      PROVE  \E x \in BagToSet(net') : Bound(x, t)
  <2>1. \/ \E b \in Bbmds : SubnetOf[b] = SubnetOf[t]
        \/ \E b \in Bbmds : t \in fdt[b]
    BY DEF Listed
  <2>2. t \in Hosts BY DEF Listed, Hosts, TypeOK
  <2>3. CASE kind = "Distribute"
    <3>1. PICK x \in BagToSet(net') : x.kind = "Distribute" /\ x.to \in Bbmds
      BY <1>3, <2>3
    <3>2. \A b : Spreads(x, b) BY <3>1 DEF Spreads
    <3> QED BY <2>1, <3>2 DEF Bound
  <2>4. CASE kind = "Original"
    <3>1. address = LocalBroadcast(h) /\ h \in Bbmds \cup Devices BY <2>4
    <3>2. PICK c \in Bbmds : SubnetOf[h] = SubnetOf[c] BY <3>1
    <3>3. c \in LocalBroadcast(h) BY <3>2 DEF LocalBroadcast, Hosts
    <3>4. PICK x \in BagToSet(net') : x.kind = "Original" /\ x.to = c
      BY <1>3, <2>4, <3>1, <3>3
    <3>5. \A b \in Bbmds : b # c => Spreads(x, b) BY <3>4 DEF Spreads
    <3>6. CASE \E b \in Bbmds : t \in fdt[b]
      BY <3>4, <3>5, <3>6 DEF Bound
    <3>7. CASE \E b \in Bbmds : b # c /\ SubnetOf[b] = SubnetOf[t]
      BY <3>5, <3>7 DEF Bound
    <3>8. CASE SubnetOf[c] = SubnetOf[t]
      <4>1. t \in LocalBroadcast(h) BY <2>2, <3>2, <3>8 DEF LocalBroadcast
      <4>2. PICK y \in BagToSet(net') : y.kind = "Original" /\ y.to = t
        BY <1>3, <2>4, <3>1, <4>1
      <4> QED BY <4>2 DEF Bound
    <3> QED BY <2>1, <3>6, <3>7, <3>8
  <2> QED BY <2>3, <2>4
<1>6. ASSUME NEW d \in Devices, NEW x \in BagToSet(net'), Bound(x, d),
             NEW y \in BagToSet(net'), Bound(y, d)
      PROVE  y = x
  <2>1. CASE kind = "Distribute" BY <1>3, <2>1
  <2>2. CASE kind = "Original"
    <3>1. PICK c \in Bbmds : SubnetOf[d] = SubnetOf[c] OBVIOUS
    <3>2. ASSUME NEW z \in BagToSet(net'), Bound(z, d)
          PROVE  \/ SubnetOf[h] = SubnetOf[c] /\ z.to = d
                 \/ /\ SubnetOf[h] # SubnetOf[c]
                    /\ z.to \in Bbmds /\ SubnetOf[z.to] = SubnetOf[h]
      <4>1. z.kind = "Original" /\ SubnetOf[z.to] = SubnetOf[h]
        BY <1>3, <2>2, <3>2 DEF LocalBroadcast
      <4>2. \A b \in Bbmds : d \notin fdt[b] BY DEF TypeOK
      <4>3. CASE z.to = d BY <3>1, <4>1, <4>3
      <4>4. ASSUME NEW b \in Bbmds, SubnetOf[b] = SubnetOf[d], Spreads(z, b)
            PROVE  /\ SubnetOf[h] # SubnetOf[c]
                   /\ z.to \in Bbmds
        <5>1. b = c BY <3>1, <4>4
        <5>2. z.to \in Bbmds /\ z.to # c BY <4>1, <4>4, <5>1 DEF Spreads
        <5> QED BY <4>1, <5>2
      <4> QED BY <3>2, <4>1, <4>2, <4>3, <4>4 DEF Bound
    <3>3. y.to = x.to BY <1>6, <3>2
    <3> QED BY <1>3, <3>3
  <2> QED BY <2>1, <2>2
<1>7. /\ Uniform' = Uniform /\ Listed' = Listed
      /\ \A m, t : Bound(m, t)' <=> Bound(m, t)
  BY <1>2, TablesKept
<1>8. NobodyForgotten' BY <1>2, <1>5, <1>7 DEF NobodyForgotten
<1>9. NobodyTwice' BY <1>2, <1>6, <1>7 DEF NobodyTwice
<1>10. SettledInv' BY <1>2, <1>7, <1>8, <1>9 DEF SettledInv, Settled
<1> QED BY <1>1, <1>4, <1>10

\* After a reconfiguration the broadcast under way, if there is one, is no
\* longer a broadcast under settled tables.
LEMMA ReconfiguredInv ==
  ASSUME IInv, Reconfigured, TypeOK'
  PROVE  IInv'
<1> USE DEF IInv
<1>1. ~ Settled' BY DEF TypeOK, Reconfigured, Settled
<1>2. OneBroadcast'
  <2>1. CASE net = EmptyBag
    <3>1. BagToSet(net') = {} BY <2>1, NoCopies DEF Reconfigured
    <3> QED BY <3>1 DEF OneBroadcast
  <2>2. CASE net # EmptyBag
    <3>1. net' = net /\ origin' = origin BY <2>2 DEF Reconfigured
    <3> QED BY <3>1 DEF OneBroadcast, OfBroadcast
  <2> QED BY <2>1, <2>2
<1> QED BY <1>1, <1>2 DEF SettledInv

LEMMA Inductive == Spec => []IInv
<1>1. Init => IInv
  <2> SUFFICES ASSUME Init PROVE IInv OBVIOUS
  <2>1. BagToSet(net) = {} BY NoCopies DEF Init
  <2>2. ~ Settled BY DEF Init, Settled
  <2> QED BY <2>1, <2>2, InitTypes DEF IInv, OneBroadcast, SettledInv
<1>2. IInv /\ [Next]_vars => IInv'
  <2> SUFFICES ASSUME IInv, [Next]_vars PROVE IInv' OBVIOUS
  <2>1. TypeOK' BY NextTypes DEF IInv
  <2>2. CASE UNCHANGED vars
    <3>1. UNCHANGED tables /\ UNCHANGED broadcast
      BY <2>2 DEF vars, tables, broadcast
    <3>2. /\ Uniform' = Uniform /\ NoRowTwice' = NoRowTwice /\ Listed' = Listed
          /\ \A m, t : Bound(m, t)' <=> Bound(m, t)
      BY <3>1, TablesKept
    <3>3. OneBroadcast' BY <3>1 DEF IInv, OneBroadcast, OfBroadcast, broadcast
    <3>4. NobodyForgotten' <=> NobodyForgotten
      BY <3>1, <3>2 DEF NobodyForgotten, broadcast
    <3>5. NobodyTwice' <=> NobodyTwice
      BY <3>1, <3>2 DEF NobodyTwice, broadcast
    <3>6. Settled' <=> Settled BY <3>1 DEF Settled, broadcast
    <3> QED BY <2>1, <3>2, <3>3, <3>4, <3>5, <3>6 DEF IInv, SettledInv
  <2>3. CASE \E b \in Bbmds : TableStep(b)
    BY <2>1, <2>3, TableStepReconfigures, ReconfiguredInv
  <2>4. CASE \E m \in BagToSet(net) : Receive(m) BY <2>4, ReceivedInv
  <2> QED BY <2>2, <2>3, <2>4, StepCases, SentInv
<1> QED BY <1>1, <1>2, PTL DEF Spec

\* While all BDTs are complete, equal and of one kind of mask, and none has a
\* row twice, a device on a BBMD's subnet receives a broadcast once, although
\* its BBMD may receive and forward it more than once (bvlc.cpp:1205, 852-864).
THEOREM DevicesHearOnce == Spec => []OnceOnSubnets
<1>1. IInv => OnceOnSubnets
  BY DEF IInv, SettledInv, NobodyTwice, OnceOnSubnets
<1> QED BY <1>1, Inductive, PTL

\* And when the copies have run out everybody has received it: the devices,
\* the BBMDs' own applications and the foreign devices (bvlc.cpp:1328-1366).
THEOREM EverybodyIsReached == Spec => []ReachesEverybody
<1>1. IInv => ReachesEverybody
  <2> SUFFICES ASSUME IInv, Settled, net = EmptyBag
               PROVE  (Bbmds \cup Devices \cup Listed) \ {origin}
                        \subseteq delivered
    BY DEF ReachesEverybody
  <2>1. BagToSet(net) = {} BY NoCopies
  <2> QED BY <2>1 DEF IInv, SettledInv, NobodyForgotten
<1> QED BY <1>1, Inductive, PTL

=============================================================================
