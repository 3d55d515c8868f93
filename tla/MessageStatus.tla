---------------------------- MODULE MessageStatus ----------------------------
(***************************************************************************)
(* The status of one stored message: the requests that change it           *)
(* (UpdateMessageStatus, HttpUpdateMessageStatus, its bulk form,           *)
(* DeleteMessage and HttpDeleteMessage of messages.go) each read the       *)
(* message, check what they read, tell the receivers, and write the status *)
(* back.  Nothing orders two of them.                                      *)
(*                                                                         *)
(* A message of a broadcast class has one status per receiver (statusSync) *)
(* and any other one status for all.  For a linkage class, whose message   *)
(* is two documents, see LinkedMessages.                                   *)
(***************************************************************************)
EXTENDS Naturals, FiniteSets

CONSTANTS
  Users,
  Receivers,  \* the Target of the send request
  Target,     \* the Target that was stored (see Remaining in MessageDelivery)
  Author,     \* message.OpenId
  Classes,    \* the kinds of class the message may have
  States,     \* the states of the class
  First,      \* States[0]
  NoStatus,   \* the empty string, or no entry in statusSync
  Requests,
  Kind,       \* "update", "bulk" or "delete"
  By,         \* the open id of each request
  Asks,       \* the status it asks for
  Faults      \* what may fail: "store", "redis"

Deleted == "deleted"

ASSUME StatusAssumption ==
  /\ Target \subseteq Receivers /\ Receivers \subseteq Users
  /\ Author \in Users
  /\ Classes \subseteq [type : {"exclusive", "shared", "broadcast"},
                         mode : {"push", "pull"}, persist : BOOLEAN]
  /\ First \in States /\ NoStatus \notin States
  /\ Kind \in [Requests -> {"update", "bulk", "delete"}]
  /\ By \in [Requests -> Users]
  /\ Asks \in [Requests -> States \cup {NoStatus, Deleted}]
  /\ \A r \in Requests : Kind[r] = "delete" => Asks[r] = Deleted

VARIABLES
  class,       \* the message's class; persist: kept in MongoDB, not in Redis
  stored,      \* the message is in the store
  inserted,    \* insertOneMessage was called
  status,      \* its status field there
  statusSync,  \* its statusSync field there
  synced,      \* the stored document has a statusSync field
  pc,          \* where each request is
  newStatus,   \* the status field of the request's copy
  newSync,     \* the statusSync field of the request's copy
  outcome,     \* what the request returned
  told,        \* the fields each user was last told, as a pair
  fresh,       \* history: requests that read the present content of the message
  stale,       \* history: requests that wrote although they were not fresh
  announced,   \* history: requests that told the receivers
  written      \* history: requests that wrote

document == <<class, stored, inserted, status, statusSync, synced>>
copies   == <<pc, newStatus, newSync, outcome>>
history  == <<fresh, stale, announced, written>>
vars == <<document, copies, told, history>>

Type    == class.type
Mode    == class.mode
Persist == class.persist

\* setDefaultMessageStatus
DefaultStatus == IF Type = "broadcast" THEN NoStatus ELSE First
DefaultSync ==
  [u \in Users |-> IF Type = "broadcast" /\ u \in Receivers THEN First ELSE NoStatus]

Init ==
  /\ class \in Classes
  /\ stored = FALSE /\ inserted = FALSE
  /\ status = DefaultStatus
  /\ statusSync = DefaultSync
  /\ synced = (Type = "broadcast")
  /\ pc = [r \in Requests |-> "new"]
  /\ newStatus = [r \in Requests |-> NoStatus]
  /\ newSync = [r \in Requests |-> DefaultSync]
  /\ outcome = [r \in Requests |-> "none"]
  /\ told = [u \in Users |-> <<DefaultStatus, DefaultSync>>]
  /\ fresh = {} /\ stale = {} /\ announced = {} /\ written = {}

-----------------------------------------------------------------------------
(***************************************************************************)
(* The store.                                                              *)
(***************************************************************************)

\* The send request stores the message, after its receivers have it.
Insert ==
  /\ ~inserted
  /\ inserted' = TRUE
  /\ \/ stored' = TRUE
     \/ "store" \in Faults /\ stored' = FALSE
  /\ UNCHANGED <<class, status, statusSync, synced, copies, told, history>>

\* Redis forgets a message 24 hours after its last SET.
Expire ==
  /\ ~Persist
  /\ stored
  /\ stored' = FALSE
  /\ UNCHANGED <<class, inserted, status, statusSync, synced, copies, told, history>>

-----------------------------------------------------------------------------
(***************************************************************************)
(* The checks, on the copy the request read.                               *)
(***************************************************************************)

\* Variants, as careless edits would leave the checks and the helpers.
IgnoreDeleted(s) == TRUE
AllEntries(r) == [u \in Users |-> Asks[r]]
TellAuthorOnly(r) == {Author}

\* validateMessageStatusIsDeleted, and its like for one broadcast entry.
NotDeleted(s) == s # Deleted

\* validateMessagePermissionToUpdateMessageStatusExclusiveMessage
Permitted(r) == Type = "exclusive" => By[r] \in Target

\* The present status as far as the request is concerned.
Current(r) == IF Type = "broadcast" THEN statusSync[By[r]] ELSE status

\* validateUpdateMessageStatus and validateHttpUpdateMessageStatus
MayUpdate(r) ==
  /\ Asks[r] # Deleted
  /\ Asks[r] # Current(r)
  /\ NotDeleted(Current(r))
  /\ Permitted(r)

\* validateDeleteMessage and validateHttpDeleteMessage
MayDelete(r) == Permitted(r)

\* validateMessageStatusExistInMessageClassStates comes first in all of them.
Valid(r) ==
  /\ Asks[r] \in States
  /\ IF Kind[r] = "delete" THEN MayDelete(r) ELSE MayUpdate(r)

OwnEntry(r) == [statusSync EXCEPT ![By[r]] = Asks[r]]

\* queryMessagesByFilter: the bulk update looks in MongoDB only, for documents
\* that have a statusSync field or name its user among the receivers.
Finds(r) == stored /\ (Kind[r] = "bulk" => Persist /\ (synced \/ By[r] \in Target))

-----------------------------------------------------------------------------
(***************************************************************************)
(* A request.                                                              *)
(***************************************************************************)
Return(r, result) ==
  /\ pc' = [pc EXCEPT ![r] = "done"]
  /\ outcome' = [outcome EXCEPT ![r] = result]

\* findMessage and the checks pass; the new status is set in the copy.
Find(r) ==
  /\ pc[r] = "new"
  /\ Finds(r) /\ Valid(r)
  /\ pc' = [pc EXCEPT ![r] = IF Kind[r] = "bulk" THEN "write" ELSE "tell"]
  /\ newStatus' = [newStatus EXCEPT ![r] = IF Type = "broadcast" THEN status ELSE Asks[r]]
  /\ newSync' = [newSync EXCEPT ![r] = IF Type = "broadcast" THEN OwnEntry(r) ELSE statusSync]
  /\ fresh' = fresh \cup {r}
  /\ UNCHANGED <<document, outcome, told, stale, announced, written>>

\* The message is not found, or a check fails.  The bulk update skips it.
Refuse(r) ==
  /\ pc[r] = "new"
  /\ ~Finds(r) \/ ~Valid(r)
  /\ Return(r, IF Kind[r] = "bulk" THEN "skipped" ELSE "error")
  /\ UNCHANGED <<document, newStatus, newSync, told, history>>

\* Who hears of an update: by push, the stored receivers and the author, if
\* somebody else's update; by pull, the receivers other than the updater.
Audience(r) ==
  IF Mode = "push" THEN Target \cup ({Author} \ {By[r]}) ELSE Target \ {By[r]}

Tell(r) ==
  /\ pc[r] = "tell"
  /\ pc' = [pc EXCEPT ![r] = "write"]
  /\ told' = [u \in Users |->
                IF u \in Audience(r) THEN <<newStatus[r], newSync[r]>> ELSE told[u]]
  /\ announced' = announced \cup {r}
  /\ UNCHANGED <<document, newStatus, newSync, outcome, fresh, stale, written>>

\* A pull update fails to change one of the cached lists and returns; some of
\* the receivers have the new status.
TellFails(r) ==
  /\ "redis" \in Faults /\ Mode = "pull"
  /\ pc[r] = "tell"
  /\ \E some \in SUBSET Audience(r) :
       told' = [u \in Users |-> IF u \in some THEN <<newStatus[r], newSync[r]>> ELSE told[u]]
  /\ Return(r, "error")
  /\ announced' = announced \cup {r}
  /\ UNCHANGED <<document, newStatus, newSync, fresh, stale, written>>

\* updateOneMessage and the bulk write: the fields of the copy overwrite those
\* in the store.  updateOneMessage writes a statusSync field even when the copy
\* has none.
Write(r) ==
  /\ pc[r] = "write"
  /\ stored
  /\ status' = newStatus[r]
  /\ statusSync' = newSync[r]
  /\ synced' = (synced \/ Kind[r] # "bulk")
  /\ Return(r, "ok")
  /\ fresh' = {}
  /\ stale' = IF r \in fresh THEN stale ELSE stale \cup {r}
  /\ written' = written \cup {r}
  /\ UNCHANGED <<class, stored, inserted, newStatus, newSync, told, announced>>

\* What an update whose write failed returns: updateMessageStatus and
\* httpUpdateMessageStatus drop the error, the others pass it on.
AfterFailedWrite(r) == IF Kind[r] = "update" THEN "ok" ELSE "error"

\* The message expired since it was read, or the store fails.
WriteFails(r) ==
  /\ pc[r] = "write"
  /\ ~stored \/ "store" \in Faults
  /\ Return(r, AfterFailedWrite(r))
  /\ UNCHANGED <<document, newStatus, newSync, told, history>>

RequestStep(r) ==
  Find(r) \/ Refuse(r) \/ Tell(r) \/ TellFails(r) \/ Write(r) \/ WriteFails(r)

Next ==
  \/ Insert \/ Expire
  \/ \E r \in Requests : RequestStep(r)

Spec == Init /\ [][Next]_vars

-----------------------------------------------------------------------------
Statuses == States \cup {NoStatus}

\* Every variable stays in its type; a class that is not broadcast never gets
\* entries, and a broadcast one never a common status.
TypeOK ==
  /\ class \in Classes
  /\ stored \in BOOLEAN /\ inserted \in BOOLEAN /\ synced \in BOOLEAN
  /\ status \in IF Type = "broadcast" THEN {NoStatus} ELSE States
  /\ statusSync \in [Users -> IF Type = "broadcast" THEN Statuses ELSE {NoStatus}]
  /\ pc \in [Requests -> {"new", "tell", "write", "done"}]
  /\ newStatus \in [Requests -> Statuses]
  /\ newSync \in [Requests -> [Users -> Statuses]]
  /\ outcome \in [Requests -> {"none", "ok", "error", "skipped"}]
  /\ told \in [Users -> Statuses \X [Users -> Statuses]]
  /\ fresh \subseteq Requests /\ stale \subseteq Requests
  /\ announced \subseteq Requests /\ written \subseteq Requests

\* As long as no request writes what it computed from an old read, a deleted
\* message stays deleted, for all or for the user who deleted it.
DeletedStays ==
  [][stale' = {} =>
       /\ status = Deleted => status' = Deleted
       /\ \A u \in Users : statusSync[u] = Deleted => statusSync'[u] = Deleted]_vars

\* A request that read the present content changes no other user's entry.
OnlyOwnEntry ==
  [][stale' = stale =>
       \A u \in Users : statusSync'[u] # statusSync[u] =>
         \E r \in written' \ written : By[r] = u]_vars

\* Once every request has returned, the receivers of a pushed message were last
\* told what is stored, if every request that told them wrote, every one that
\* wrote told them (the bulk update tells nobody), and none wrote from an old
\* read.
ToldIsStored ==
  /\ Mode = "push"
  /\ \A r \in Requests : pc[r] = "done"
  /\ announced = written /\ stale = {}
  => \A u \in Target : told[u] = <<status, statusSync>>

=============================================================================
