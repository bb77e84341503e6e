--------------------------- MODULE RecipientStore ---------------------------
(***************************************************************************)
(* The recipient lists of the notification class objects and the file that *)
(* keeps them over a restart (objects/container.cpp, with the write of     *)
(* Recipient_List in objects/notification_class.cpp).                      *)
(*                                                                         *)
(* Every write exports the lists of all classes that exist: the file is    *)
(* removed, then the text is prepared, then a new file is opened and       *)
(* filled.  The process may end between any two of these steps, and each   *)
(* may throw, which is caught: the write succeeds all the same.  Every     *)
(* class that is added imports the whole file.                             *)
(*                                                                         *)
(* A class is identified by its object name, a list is a value.            *)
(***************************************************************************)
EXTENDS FiniteSets

CONSTANTS
  Classes,          \* notification classes the application adds
  Lists,            \* recipient lists that are written
  NoList,           \* the empty list of a new class
  Failures          \* subset of {"remove", "fill", "encrypt"}: steps that throw

ASSUME StoreAssumption ==
  /\ NoList \notin Lists
  /\ Failures \subseteq {"remove", "fill", "encrypt"}

VARIABLES
  lists,            \* recipient_list of every class that exists
  file,             \* pathToRecipientListFile
  export,           \* the step of ExportRecipientList() that comes next
  writing,          \* the class whose write is being served
  \* history, read by the properties only
  acked,            \* the list last written with success
  clean             \* no crash in an export, no step failed, no early write

vars == <<lists, file, export, writing, acked, clean>>

Values == Lists \cup {NoList}
PartialLists == UNION {[S -> Values] : S \in SUBSET Classes}
Existing == DOMAIN lists

Nothing == [c \in {} |-> NoList]
Absent == [kind |-> "absent", lists |-> Nothing]
Broken == [kind |-> "broken", lists |-> Nothing]
Stored(ls) == [kind |-> "stored", lists |-> ls]

TypeOK ==
  /\ lists \in PartialLists
  /\ file \in {Absent, Broken} \cup {Stored(ls) : ls \in PartialLists}
  /\ export \in {"none", "remove", "fill", "encrypt"}
  /\ writing \in Classes
  /\ export # "none" => writing \in Existing
  /\ acked \in [Classes -> Values]
  /\ clean \in BOOLEAN

Init ==
  /\ lists = Nothing /\ file = Absent
  /\ export = "none" /\ writing \in Classes
  /\ acked = [c \in Classes |-> NoList] /\ clean = TRUE

-----------------------------------------------------------------------------
(* Adding a notification class *)

\* configureNotificationClasses(): the lists `stored' of classes that exist.
Configured(ls, stored) ==
  [c \in DOMAIN ls |-> IF c \in DOMAIN stored THEN stored[c] ELSE ls[c]]

\* ImportRecipientList(): an absent file and one that cannot be decrypted or
\* parsed leave the lists alone.
Imported(ls) == Configured(ls, file.lists)

\* addNotificationClassObject().
AddNotificationClass(c) ==
  /\ export = "none" /\ c \notin Existing
  /\ lists' = Imported([d \in Existing \cup {c} |->
                          IF d = c THEN NoList ELSE lists[d]])
  /\ UNCHANGED <<file, export, writing, acked, clean>>

-----------------------------------------------------------------------------
(* Writing a recipient list *)

\* notification_class_write_property(), PROP_RECIPIENT_LIST, once the whole
\* list has been decoded; a request that cannot be decoded changes nothing.
WriteRecipientList(c, l) ==
  /\ export = "none" /\ c \in Existing
  /\ lists' = [lists EXCEPT ![c] = l]
  /\ writing' = c /\ export' = "remove"
  /\ clean' = (clean /\ Existing = Classes)
  /\ UNCHANGED <<file, acked>>

\* ExportRecipientList() returns and the write is acknowledged.
Finish ==
  /\ export' = "none"
  /\ acked' = [acked EXCEPT ![writing] = lists[writing]]
  /\ UNCHANGED <<lists, writing>>

Throw(step) ==
  /\ step \in Failures /\ export = step
  /\ Finish
  /\ clean' = FALSE
  /\ UNCHANGED file

\* Fault: the previous file is left where it is.
FileKept == file

FileRemoved == Absent

Remove ==
  /\ export = "remove" /\ export' = "fill"
  /\ file' = FileRemoved
  /\ UNCHANGED <<lists, writing, acked, clean>>

\* The temporary file has been filled, and the new file is opened.
Fill ==
  /\ export = "fill" /\ export' = "encrypt"
  /\ file' = Broken
  /\ UNCHANGED <<lists, writing, acked, clean>>

\* Fault: only the class that was written is stored.
SnapshotOfWritten == [c \in {writing} |-> lists[c]]

\* getRecipientList(): all the classes that exist.
Snapshot == lists

Encrypt ==
  /\ export = "encrypt"
  /\ file' = Stored(Snapshot)
  /\ Finish
  /\ UNCHANGED clean

-----------------------------------------------------------------------------
\* The process ends, maybe in the middle of an export; the next one has no
\* class to begin with.
Restart ==
  /\ lists' = Nothing /\ export' = "none"
  /\ clean' = (clean /\ export = "none")
  /\ UNCHANGED <<file, writing, acked>>

Next ==
  \/ \E c \in Classes : AddNotificationClass(c)
  \/ \E c \in Classes, l \in Lists : WriteRecipientList(c, l)
  \/ Remove \/ Fill \/ Encrypt \/ Restart
  \/ \E step \in Failures : Throw(step)

Spec == Init /\ [][Next]_vars

-----------------------------------------------------------------------------
(* Properties *)

\* As long as no process has ended in the middle of an export, no step of one
\* has failed and no write was served before all classes were added, every
\* class has the list last written to it, by this process or any before it.
ListsSurvive ==
  clean /\ export = "none" => \A c \in Existing : lists[c] = acked[c]

\* Whatever else goes wrong, as long as an old file can be removed: a class
\* may lose its recipients, but those of a superseded list never come back.
NoSupersededList ==
  "remove" \notin Failures =>
    \A c \in Existing :
      \/ export # "none" /\ c = writing
      \/ lists[c] \in {NoList, acked[c]}

\* Adding a class imports the lists of all, again: those that were there are
\* not changed by it, even if the last export failed.
AddingKeepsTheOthers ==
  [][\A c \in Existing :
       "remove" \notin Failures /\ Existing # DOMAIN lists'
         /\ c \in DOMAIN lists' => lists'[c] = lists[c]]_vars

=============================================================================
