------------------------ MODULE RecipientStore_proofs ------------------------
(***************************************************************************)
(* What RecipientStore promises, for any classes and lists.                *)
(***************************************************************************)
EXTENDS RecipientStore, TLAPS

\* What a value of PartialLists is.
LEMMA PartialListsFacts ==
  \A ls : ls \in PartialLists <=>
            DOMAIN ls \subseteq Classes /\ ls \in [DOMAIN ls -> Values]
<1>1. ASSUME NEW ls, ls \in PartialLists
      PROVE  DOMAIN ls \subseteq Classes /\ ls \in [DOMAIN ls -> Values]
  <2>1. PICK S \in SUBSET Classes : ls \in [S -> Values]
    BY <1>1, Zenon DEF PartialLists
  <2>2. DOMAIN ls = S  BY <2>1
  <2> QED  BY <2>1, <2>2
<1>2. ASSUME NEW ls, DOMAIN ls \subseteq Classes, ls \in [DOMAIN ls -> Values]
      PROVE  ls \in PartialLists
  BY <1>2, Zenon DEF PartialLists
<1> QED  BY <1>1, <1>2

\* The text that is read back is empty unless an export was completed.
LEMMA FileFacts ==
  ASSUME TypeOK
  PROVE  /\ file.lists \in PartialLists
         /\ DOMAIN Nothing = {} /\ Nothing \in PartialLists
         /\ Absent.lists = Nothing /\ Broken.lists = Nothing
         /\ \A ls : Stored(ls).lists = ls
<1>1. DOMAIN Nothing = {} /\ Nothing \in [DOMAIN Nothing -> Values]
  BY DEF Nothing
<1>2. Nothing \in PartialLists  BY <1>1, PartialListsFacts, Zenon
<1> QED  BY <1>1, <1>2 DEF TypeOK, Absent, Broken, Stored

\* Importing keeps the classes and gives each its list of the file.
LEMMA ImportedFacts ==
  ASSUME TypeOK, NEW ls \in PartialLists
  PROVE  /\ Imported(ls) \in PartialLists
         /\ DOMAIN Imported(ls) = DOMAIN ls
         /\ \A c \in DOMAIN ls :
              Imported(ls)[c] = IF c \in DOMAIN file.lists
                                THEN file.lists[c] ELSE ls[c]
<1>1. /\ DOMAIN ls \subseteq Classes /\ ls \in [DOMAIN ls -> Values]
      /\ file.lists \in [DOMAIN file.lists -> Values]
  BY PartialListsFacts, FileFacts, Zenon
<1>2. /\ DOMAIN Imported(ls) = DOMAIN ls
      /\ Imported(ls) \in [DOMAIN ls -> Values]
  BY <1>1 DEF Imported, Configured
<1>3. Imported(ls) \in PartialLists  BY <1>1, <1>2, PartialListsFacts, Zenon
<1> QED  BY <1>2, <1>3 DEF Imported, Configured

\* The lists with an empty one for the class that is added.
Extended(c) == [d \in Existing \cup {c} |-> IF d = c THEN NoList ELSE lists[d]]

LEMMA ExtendedFacts ==
  ASSUME TypeOK, NEW c \in Classes
  PROVE  Extended(c) \in PartialLists /\ DOMAIN Extended(c) = Existing \cup {c}
<1>1. DOMAIN lists \subseteq Classes /\ lists \in [DOMAIN lists -> Values]
  BY PartialListsFacts, Zenon DEF TypeOK
<1>2. /\ DOMAIN Extended(c) = Existing \cup {c}
      /\ Extended(c) \in [Existing \cup {c} -> Values]
  BY <1>1 DEF Extended, Existing, Values
<1>3. DOMAIN Extended(c) \subseteq Classes  BY <1>1, <1>2 DEF Existing
<1> QED  BY <1>2, <1>3, PartialListsFacts, Zenon

-----------------------------------------------------------------------------
\* Every step keeps the types.
LEMMA TypeStep == TypeOK /\ [Next]_vars => TypeOK'
<1> SUFFICES ASSUME TypeOK, [Next]_vars PROVE TypeOK'
  OBVIOUS
<1>0. /\ Existing \subseteq Classes /\ lists \in [Existing -> Values]
      /\ Nothing \in PartialLists /\ DOMAIN Nothing = {}
  BY PartialListsFacts, FileFacts, Zenon DEF TypeOK, Existing
<1>1. ASSUME Finish, export # "none" PROVE acked' \in [Classes -> Values]
  BY <1>0, <1>1 DEF Finish, TypeOK, Existing
<1>2. CASE \E c \in Classes : AddNotificationClass(c)
  <2>1. PICK c \in Classes : AddNotificationClass(c)  BY <1>2
  <2>2. lists' = Imported(Extended(c))
    BY <2>1, Zenon DEF AddNotificationClass, Extended
  <2>3. lists' \in PartialLists /\ DOMAIN lists' = Existing \cup {c}
    BY <2>2, ExtendedFacts, ImportedFacts
  <2> QED  BY <2>1, <2>3 DEF AddNotificationClass, TypeOK, Existing
<1>3. CASE \E c \in Classes, l \in Lists : WriteRecipientList(c, l)
  <2>1. PICK c \in Classes, l \in Lists : WriteRecipientList(c, l)  BY <1>3
  <2>2. DOMAIN lists' = Existing /\ lists' \in [Existing -> Values]
    BY <2>1, <1>0 DEF WriteRecipientList, Existing, Values
  <2>3. lists' \in PartialLists  BY <2>2, <1>0, PartialListsFacts
  <2> QED  BY <2>1, <2>2, <2>3 DEF WriteRecipientList, TypeOK, Existing
<1>4. CASE Remove
  BY <1>4 DEF Remove, FileRemoved, TypeOK, Existing
<1>5. CASE Fill  BY <1>5 DEF Fill, TypeOK, Existing
<1>6. CASE Encrypt
  BY <1>6, <1>1 DEF Encrypt, Snapshot, Finish, TypeOK
<1>7. CASE Restart  BY <1>7, <1>0 DEF Restart, TypeOK, Existing
<1>8. CASE \E step \in Failures : Throw(step)
  BY <1>8, <1>1, StoreAssumption DEF Throw, Finish, TypeOK
<1>9. CASE UNCHANGED vars  BY <1>9 DEF vars, TypeOK, Existing
<1> QED  BY <1>2, <1>3, <1>4, <1>5, <1>6, <1>7, <1>8, <1>9 DEF Next

\* The type invariant: among others, exactly the classes that exist have a
\* list, and a write is served only for a class that exists.
THEOREM TypeCorrect == Spec => []TypeOK
<1>1. Init => TypeOK
  <2>1. DOMAIN Nothing = {} /\ Nothing \in [DOMAIN Nothing -> Values]
    BY DEF Nothing
  <2>2. Nothing \in PartialLists  BY <2>1, PartialListsFacts, Zenon
  <2> QED  BY <2>2 DEF Init, TypeOK, Values
<1> QED  BY <1>1, TypeStep, PTL DEF Spec

-----------------------------------------------------------------------------
(* Nothing superseded comes back *)

\* A file that can be read holds no superseded list, and nothing that differs
\* from the class it was taken from; once it has been removed it holds nothing.
FileInv ==
  /\ export \in {"fill", "encrypt"} => file.lists = Nothing
  /\ \A c \in DOMAIN file.lists : file.lists[c] \in {NoList, acked[c]}
  /\ \A c \in Existing \cap DOMAIN file.lists :
       file.lists[c] = lists[c] \/ (export = "remove" /\ c = writing)

StoreInv ==
  /\ TypeOK
  /\ "remove" \notin Failures => FileInv /\ NoSupersededList

\* The invariant is kept.
LEMMA StoreStep == StoreInv /\ [Next]_vars => StoreInv'
<1> SUFFICES ASSUME StoreInv, [Next]_vars PROVE StoreInv'
  OBVIOUS
<1>0. TypeOK /\ TypeOK'  BY TypeStep DEF StoreInv
<1> SUFFICES ASSUME "remove" \notin Failures
             PROVE  FileInv' /\ NoSupersededList'
  BY <1>0 DEF StoreInv
<1> USE DEF Existing
<1>1. /\ FileInv
      /\ \A c \in Existing :
           (export # "none" /\ c = writing) \/ lists[c] \in {NoList, acked[c]}
  BY DEF StoreInv, NoSupersededList
<1>2. /\ DOMAIN Nothing = {} /\ Absent.lists = Nothing /\ Broken.lists = Nothing
      /\ \A ls : Stored(ls).lists = ls
  BY <1>0, FileFacts
<1>3. CASE \E c \in Classes : AddNotificationClass(c)
  <2>1. PICK c \in Classes : AddNotificationClass(c)  BY <1>3
  <2>2. lists' = Imported(Extended(c))
    BY <2>1, Zenon DEF AddNotificationClass, Extended
  <2>3. /\ DOMAIN lists' = Existing \cup {c}
        /\ \A d \in Existing \cup {c} :
             lists'[d] = IF d \in DOMAIN file.lists THEN file.lists[d]
                         ELSE IF d = c THEN NoList ELSE lists[d]
    BY <1>0, <2>2, ExtendedFacts, ImportedFacts DEF Extended
  <2>4. export' = "none" /\ export = "none"
          /\ UNCHANGED <<file, acked, writing>>
    BY <2>1 DEF AddNotificationClass
  <2> QED  BY <1>1, <2>3, <2>4 DEF FileInv, NoSupersededList
<1>4. CASE \E c \in Classes, l \in Lists : WriteRecipientList(c, l)
  <2>1. PICK c \in Classes, l \in Lists : WriteRecipientList(c, l)  BY <1>4
  <2>2. /\ export = "none" /\ export' = "remove" /\ writing' = c
        /\ UNCHANGED <<file, acked>> /\ DOMAIN lists' = Existing
        /\ \A d \in Existing : d # c => lists'[d] = lists[d]
    BY <2>1 DEF WriteRecipientList
  <2> QED  BY <1>1, <2>2 DEF FileInv, NoSupersededList
<1>5. CASE Remove
  BY <1>1, <1>2, <1>5 DEF Remove, FileRemoved, FileInv, NoSupersededList
<1>6. CASE Fill
  BY <1>1, <1>2, <1>6 DEF Fill, FileInv, NoSupersededList
<1>7. ASSUME Finish, export # "none" PROVE NoSupersededList'
  <2>1. acked'[writing] = lists[writing]
          /\ \A c \in Existing : c # writing => acked'[c] = acked[c]
    BY <1>0, <1>7, PartialListsFacts DEF Finish, TypeOK
  <2> QED  BY <1>1, <1>7, <2>1 DEF Finish, NoSupersededList
<1>8. CASE Encrypt
  <2>1. NoSupersededList'  BY <1>7, <1>8 DEF Encrypt
  <2>2. file'.lists = lists /\ lists' = lists /\ export' = "none"
    BY <1>2, <1>8 DEF Encrypt, Snapshot, Finish
  <2>3. \A c \in DOMAIN lists : lists[c] \in {NoList, acked'[c]}
    BY <2>1, <2>2 DEF NoSupersededList
  <2> QED  BY <2>1, <2>2, <2>3 DEF FileInv
<1>9. CASE Restart
  BY <1>1, <1>2, <1>9 DEF Restart, FileInv, NoSupersededList
<1>10. CASE \E step \in Failures : Throw(step)
  <2>1. /\ export \in Failures /\ Finish /\ UNCHANGED file
    BY <1>10 DEF Throw
  <2>2. export \in {"fill", "encrypt"}  BY <2>1, StoreAssumption
  <2>3. file'.lists = Nothing  BY <1>1, <2>1, <2>2 DEF FileInv
  <2> QED  BY <1>2, <1>7, <2>1, <2>2, <2>3 DEF FileInv, Finish
<1>11. CASE UNCHANGED vars
  BY <1>1, <1>11 DEF vars, FileInv, NoSupersededList
<1> QED
  BY <1>3, <1>4, <1>5, <1>6, <1>8, <1>9, <1>10, <1>11 DEF Next

\* The invariant holds at first.
LEMMA StoreInit == Init => StoreInv
<1>1. Init => TypeOK
  <2>1. Nothing \in PartialLists
    <3>1. DOMAIN Nothing = {} /\ Nothing \in [DOMAIN Nothing -> Values]
      BY DEF Nothing
    <3> QED  BY <3>1, PartialListsFacts, Zenon
  <2> QED  BY <2>1 DEF Init, TypeOK, Existing, Values, Nothing
<1>2. Init => FileInv /\ NoSupersededList
  BY DEF Init, FileInv, NoSupersededList, Existing, Absent, Nothing
<1> QED  BY <1>1, <1>2 DEF StoreInv

\* As long as an old file can be removed, the recipients of a superseded list
\* never come back: after a crash in the middle of an export, a failed one, or
\* a write before all the classes are there, a class has the last list or none.
THEOREM SupersededListsStayAway == Spec => []NoSupersededList
<1>1. StoreInv => NoSupersededList  BY DEF StoreInv, NoSupersededList
<1> QED  BY <1>1, StoreInit, StoreStep, PTL DEF Spec

\* addNotificationClassObject() imports the lists of all the classes again and
\* changes none of those that were there before.
THEOREM AddingIsLocal == Spec => AddingKeepsTheOthers
<1> DEFINE Keeps == \A c \in Existing :
                      "remove" \notin Failures /\ Existing # DOMAIN lists'
                        /\ c \in DOMAIN lists' => lists'[c] = lists[c]
<1>1. StoreInv /\ [Next]_vars => [Keeps]_vars
  <2> SUFFICES ASSUME StoreInv, Next, "remove" \notin Failures,
                      NEW c \in Existing, Existing # DOMAIN lists',
                      c \in DOMAIN lists'
               PROVE  lists'[c] = lists[c]
    BY Zenon DEF Keeps
  <2>0. TypeOK /\ FileInv  BY DEF StoreInv
  <2>1. CASE \E d \in Classes : AddNotificationClass(d)
    <3>1. PICK d \in Classes : AddNotificationClass(d)  BY <2>1
    <3>2. lists' = Imported(Extended(d)) /\ d \notin Existing /\ export = "none"
      BY <3>1, Zenon DEF AddNotificationClass, Extended
    <3>3. lists'[c] = IF c \in DOMAIN file.lists THEN file.lists[c]
                      ELSE Extended(d)[c]
      BY <2>0, <3>2, ExtendedFacts, ImportedFacts
    <3>4. Extended(d)[c] = lists[c]  BY <3>2 DEF Extended
    <3> QED  BY <2>0, <3>2, <3>3, <3>4 DEF FileInv
  <2>2. CASE \E d \in Classes, l \in Lists : WriteRecipientList(d, l)
    BY <2>2 DEF WriteRecipientList, Existing
  <2>3. CASE Restart
    BY <2>0, <2>3, FileFacts DEF Restart
  <2> QED
    BY <2>1, <2>2, <2>3
    DEF Next, Remove, Fill, Encrypt, Throw, Finish, Existing
<1> QED
  BY <1>1, StoreInit, StoreStep, PTL DEF Spec, AddingKeepsTheOthers, Keeps

-----------------------------------------------------------------------------
(* Nothing is lost *)

\* Between two writes the file says what was last written, to every class.
CleanInv ==
  clean =>
  /\ \A c \in Existing : lists[c] = acked[c] \/ (export # "none" /\ c = writing)
  /\ export # "none" => Existing = Classes
  /\ export = "none" => \A c \in Classes :
       acked[c] = IF c \in DOMAIN file.lists THEN file.lists[c] ELSE NoList

\* While nothing goes wrong that is an invariant.
LEMMA CleanStep == TypeOK /\ CleanInv /\ [Next]_vars => CleanInv'
<1> SUFFICES ASSUME TypeOK, CleanInv, [Next]_vars, clean' PROVE CleanInv'
  BY DEF CleanInv
<1> USE DEF Existing
<1>0. Existing \subseteq Classes  BY PartialListsFacts DEF TypeOK
<1>1. CASE \E c \in Classes : AddNotificationClass(c)
  <2>1. PICK c \in Classes : AddNotificationClass(c)  BY <1>1
  <2>2. lists' = Imported(Extended(c))
    BY <2>1, Zenon DEF AddNotificationClass, Extended
  <2>3. /\ DOMAIN lists' = Existing \cup {c}
        /\ \A d \in Existing \cup {c} :
             lists'[d] = IF d \in DOMAIN file.lists THEN file.lists[d]
                         ELSE IF d = c THEN NoList ELSE lists[d]
    BY <2>2, ExtendedFacts, ImportedFacts DEF Extended
  <2>4. export' = "none" /\ export = "none"
          /\ UNCHANGED <<file, acked, writing, clean>>
    BY <2>1 DEF AddNotificationClass
  <2> QED  BY <1>0, <2>3, <2>4 DEF CleanInv
<1>2. CASE \E c \in Classes, l \in Lists : WriteRecipientList(c, l)
  <2>1. PICK c \in Classes, l \in Lists : WriteRecipientList(c, l)  BY <1>2
  <2>2. /\ export = "none" /\ export' = "remove" /\ writing' = c
        /\ UNCHANGED acked /\ DOMAIN lists' = Existing
        /\ clean /\ Existing = Classes
        /\ \A d \in Existing : d # c => lists'[d] = lists[d]
    BY <2>1 DEF WriteRecipientList
  <2> QED  BY <2>2 DEF CleanInv
<1>3. CASE Remove  BY <1>3 DEF Remove, CleanInv
<1>4. CASE Fill  BY <1>4 DEF Fill, CleanInv
<1>5. CASE Encrypt
  <2>1. file'.lists = lists  BY <1>5, FileFacts DEF Encrypt, Snapshot
  <2>2. /\ export = "encrypt" /\ export' = "none" /\ lists' = lists
        /\ acked'[writing] = lists[writing]
        /\ \A c \in Classes : c # writing => acked'[c] = acked[c]
    BY <1>5 DEF Encrypt, Finish, TypeOK
  <2>3. clean /\ Existing = Classes  BY <1>5, <2>2 DEF Encrypt, CleanInv
  <2>4. \A c \in Classes : lists[c] = acked'[c]  BY <2>2, <2>3 DEF CleanInv
  <2> QED  BY <2>1, <2>2, <2>3, <2>4 DEF CleanInv
<1>6. CASE Restart
  <2>1. clean /\ export = "none" /\ export' = "none" /\ DOMAIN lists' = {}
          /\ UNCHANGED <<file, acked>>
    BY <1>6, FileFacts DEF Restart
  <2> QED  BY <2>1 DEF CleanInv
<1>7. CASE UNCHANGED vars  BY <1>7 DEF vars, CleanInv
<1>8. ~\E step \in Failures : Throw(step)  BY DEF Throw
<1> QED  BY <1>1, <1>2, <1>3, <1>4, <1>5, <1>6, <1>7, <1>8 DEF Next

\* While no process ends in the middle of an export, no step of one fails and
\* writes are served once all classes are added, every list is kept over
\* restarts.
THEOREM ListsAreKept == Spec => []ListsSurvive
<1>1. Init => CleanInv
  BY DEF Init, CleanInv, Existing, Nothing, Absent
<1>2. CleanInv => ListsSurvive  BY DEF CleanInv, ListsSurvive
<1> QED  BY <1>1, <1>2, CleanStep, TypeCorrect, PTL DEF Spec

=============================================================================
