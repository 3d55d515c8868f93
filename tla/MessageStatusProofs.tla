------------------------- MODULE MessageStatusProofs -------------------------
(***************************************************************************)
(* Proofs about MessageStatus, for any number of users and requests, any   *)
(* type and mode of the class and any failures.                            *)
(*                                                                         *)
(* The argument: the copy of a request that is still fresh differs from    *)
(* the document by the request's own change only (FreshCopies), so a write *)
(* that is not stale makes that change and no other.  For what users were  *)
(* told, the requests that announced their change and have not written it  *)
(* matter: with none of them the receivers know the document, with one     *)
(* that is fresh they know its copy (ToldLast).                            *)
(***************************************************************************)
EXTENDS MessageStatus, TLAPS

Running(r) == pc[r] \in {"tell", "write"}

CopyOf(r) ==
  /\ newStatus[r] = IF Type = "broadcast" THEN status ELSE Asks[r]
  /\ newSync[r] = IF Type = "broadcast" THEN OwnEntry(r) ELSE statusSync
  /\ Kind[r] # "delete" => Current(r) # Deleted

FreshCopies == \A r \in fresh : Running(r) => CopyOf(r)

\* A copy is always of the kind the class has.
CopyTypes ==
  \A r \in Requests : Running(r) =>
    /\ Asks[r] \in States
    /\ newStatus[r] \in IF Type = "broadcast" THEN {NoStatus} ELSE States
    /\ newSync[r] \in [Users -> IF Type = "broadcast" THEN Statuses ELSE {NoStatus}]

\* Which requests have announced and which have written.
Progress ==
  /\ stale \subseteq written
  /\ \A r \in Requests :
        /\ pc[r] \in {"new", "tell"} => r \notin announced
        /\ pc[r] \in {"new", "tell", "write"} => r \notin written
        /\ pc[r] = "write" => r \in announced \/ Kind[r] = "bulk"
        /\ Kind[r] = "bulk" => r \notin announced /\ pc[r] # "tell"

AllTold(pair) == \A u \in Target : told[u] = pair

ToldLast ==
  Mode = "push" /\ stale = {} /\ written \subseteq announced =>
    /\ announced = written => AllTold(<<status, statusSync>>)
    /\ \A r \in fresh :
         Running(r) /\ announced \ written = {r} => AllTold(<<newStatus[r], newSync[r]>>)

IndInv == TypeOK /\ FreshCopies /\ CopyTypes /\ Progress /\ ToldLast

-----------------------------------------------------------------------------

\* The inductive invariant holds before the first request.
LEMMA InitIndInv == Init => IndInv
<1> SUFFICES ASSUME Init PROVE IndInv
  OBVIOUS
<1> USE StatusAssumption DEF Init, DefaultStatus, DefaultSync, Statuses
<1>1. TypeOK
  BY DEF TypeOK
<1>2. FreshCopies /\ CopyTypes
  BY DEF FreshCopies, CopyTypes, Running
<1>3. Progress
  BY DEF Progress
<1>4. ToldLast
  BY DEF ToldLast, AllTold
<1> QED
  BY <1>1, <1>2, <1>3, <1>4 DEF IndInv

\* The class is chosen once, with the message.
LEMMA SameClass ==
  ASSUME Next
  PROVE  class' = class /\ Type' = Type /\ Mode' = Mode
<1>1. class' = class
  BY DEF Next, Insert, Expire, RequestStep, Find, Refuse, Tell, TellFails, Write, WriteFails,
         document
<1> QED
  BY <1>1 DEF Type, Mode

\* Insert and Expire leave alone everything but the two flags.
LEMMA StoreStep ==
  ASSUME IndInv, Insert \/ Expire
  PROVE  IndInv'
<1>0. class' = class /\ Type' = Type /\ Mode' = Mode
  BY SameClass DEF Next
<1> USE <1>0
<1>1. /\ UNCHANGED <<class, status, statusSync, synced, copies, told, history>>
      /\ stored' \in BOOLEAN /\ inserted' \in BOOLEAN
  BY DEF Insert, Expire, IndInv, TypeOK
<1>2. TypeOK'
  BY <1>1 DEF IndInv, TypeOK, copies, history
<1>3. FreshCopies' /\ CopyTypes' /\ Progress' /\ ToldLast'
  BY <1>1 DEF IndInv, FreshCopies, CopyTypes, Progress, ToldLast, Running, CopyOf,
              OwnEntry, Current, AllTold, copies, history
<1> QED
  BY <1>2, <1>3 DEF IndInv

\* Finding the message keeps it.
LEMMA FindStep ==
  ASSUME IndInv, NEW r \in Requests, Find(r)
  PROVE  IndInv'
<1>0. class' = class /\ Type' = Type /\ Mode' = Mode
  BY SameClass DEF Next, RequestStep
<1> USE <1>0
<1> USE StatusAssumption
<1>1. UNCHANGED <<document, outcome, told, stale, announced, written>>
  BY DEF Find
<1>2. /\ pc[r] = "new" /\ Asks[r] \in States
      /\ Kind[r] # "delete" => Current(r) # Deleted
  BY DEF Find, Valid, MayUpdate, NotDeleted
<1>3. \A s \in Requests \ {r} :
        /\ pc'[s] = pc[s] /\ newStatus'[s] = newStatus[s] /\ newSync'[s] = newSync[s]
        /\ s \in fresh' <=> s \in fresh
  BY DEF Find, IndInv, TypeOK
<1>4. /\ pc'[r] = (IF Kind[r] = "bulk" THEN "write" ELSE "tell")
      /\ newStatus'[r] = (IF Type = "broadcast" THEN status ELSE Asks[r])
      /\ newSync'[r] = (IF Type = "broadcast" THEN OwnEntry(r) ELSE statusSync)
  BY DEF Find, IndInv, TypeOK
<1>5. /\ newStatus'[r] \in IF Type = "broadcast" THEN {NoStatus} ELSE States
      /\ newSync'[r] \in [Users -> IF Type = "broadcast" THEN Statuses ELSE {NoStatus}]
  BY <1>2, <1>4 DEF IndInv, TypeOK, OwnEntry, Statuses
<1>6. TypeOK'
  <2>1. newStatus'[r] \in Statuses /\ newSync'[r] \in [Users -> Statuses]
    BY <1>5 DEF Statuses
  <2>2. /\ newStatus' \in [Requests -> Statuses]
        /\ newSync' \in [Requests -> [Users -> Statuses]]
    BY <1>3, <2>1 DEF Find, IndInv, TypeOK
  <2>3. pc' \in [Requests -> {"new", "tell", "write", "done"}] /\ fresh' \subseteq Requests
    BY DEF Find, IndInv, TypeOK
  <2> QED
    BY <1>1, <2>2, <2>3 DEF IndInv, TypeOK, document
<1>7. CopyTypes'
  BY <1>1, <1>2, <1>3, <1>5 DEF IndInv, CopyTypes, Running
<1>8. FreshCopies'
  <2>1. CopyOf(r)'
    BY <1>1, <1>2, <1>4 DEF CopyOf, document, OwnEntry, Current
  <2>2. \A s \in fresh \ {r} : Running(s)' => CopyOf(s)'
    BY <1>1, <1>3 DEF IndInv, TypeOK, FreshCopies, CopyOf, Running, document, OwnEntry, Current
  <2> QED
    BY <2>1, <2>2 DEF Find, FreshCopies
<1>9. Progress'
  BY <1>1, <1>2, <1>3, <1>4 DEF IndInv, Progress
<1>10. ToldLast'
  <2>1. r \notin announced /\ r \notin written
    BY <1>2 DEF IndInv, Progress
  <2> SUFFICES ASSUME Mode = "push", stale = {}, written \subseteq announced
               PROVE  /\ announced = written => AllTold(<<status, statusSync>>)'
                      /\ \A s \in fresh' : Running(s)' /\ announced \ written = {s}
                           => AllTold(<<newStatus[s], newSync[s]>>)'
    BY <1>1 DEF ToldLast
  <2>2. announced = written => AllTold(<<status, statusSync>>)'
    BY <1>1 DEF IndInv, ToldLast, AllTold, document
  <2>3. ASSUME NEW s \in fresh', Running(s)', announced \ written = {s}
        PROVE  AllTold(<<newStatus[s], newSync[s]>>)'
    <3>1. s \in fresh /\ s \in Requests \ {r} /\ Running(s)
      BY <1>3, <2>1, <2>3 DEF Find, Running, IndInv, TypeOK
    <3> QED
      BY <1>1, <1>3, <2>3, <3>1 DEF IndInv, ToldLast, AllTold
  <2> QED
    BY <2>2, <2>3
<1> QED
  BY <1>6, <1>7, <1>8, <1>9, <1>10 DEF IndInv

\* Requests that end without writing: Refuse, TellFails, WriteFails.
LEMMA EndStep ==
  ASSUME IndInv, NEW r \in Requests, Refuse(r) \/ WriteFails(r)
  PROVE  IndInv'
<1>0. class' = class /\ Type' = Type /\ Mode' = Mode
  BY SameClass DEF Next, RequestStep
<1> USE <1>0
<1>1. UNCHANGED <<document, newStatus, newSync, told, history>>
  BY DEF Refuse, WriteFails
<1>2. /\ pc' = [pc EXCEPT ![r] = "done"]
      /\ outcome' \in [Requests -> {"none", "ok", "error", "skipped"}]
  BY DEF Refuse, WriteFails, Return, AfterFailedWrite, IndInv, TypeOK
<1>3. TypeOK'
  BY <1>1, <1>2 DEF IndInv, TypeOK, document, history
<1>4. \A s \in Requests : Running(s)' => Running(s) /\ s # r /\ pc'[s] = pc[s]
  BY <1>2 DEF IndInv, TypeOK, Running
<1>5. FreshCopies' /\ CopyTypes'
  BY <1>1, <1>4 DEF IndInv, TypeOK, FreshCopies, CopyTypes, CopyOf, OwnEntry, Current,
                    document, history
<1>6. Progress'
  BY <1>1, <1>2 DEF IndInv, TypeOK, Progress, history
<1>7. ToldLast'
  BY <1>1, <1>4 DEF IndInv, TypeOK, ToldLast, AllTold, document, history
<1> QED
  BY <1>3, <1>5, <1>6, <1>7 DEF IndInv

\* Telling the receivers keeps it.
LEMMA TellStep ==
  ASSUME IndInv, NEW r \in Requests, Tell(r) \/ TellFails(r)
  PROVE  IndInv'
<1>0. class' = class /\ Type' = Type /\ Mode' = Mode
  BY SameClass DEF Next, RequestStep
<1> USE <1>0
<1>1. /\ UNCHANGED <<document, newStatus, newSync, fresh, stale, written>>
      /\ announced' = announced \cup {r}
      /\ pc[r] = "tell"
  BY DEF Tell, TellFails
<1>a. pc \in [Requests -> {"new", "tell", "write", "done"}]
  BY DEF IndInv, TypeOK
<1>b. PICK next \in {"write", "done"} : pc' = [pc EXCEPT ![r] = next]
  BY DEF Tell, TellFails, Return
<1>2. pc' \in [Requests -> {"new", "tell", "write", "done"}] /\ pc'[r] \in {"write", "done"}
  BY <1>a, <1>b
<1>3. \A s \in Requests \ {r} : pc'[s] = pc[s]
  BY <1>a, <1>b
<1>4. TypeOK'
  <2>1. outcome' \in [Requests -> {"none", "ok", "error", "skipped"}]
    BY DEF Tell, TellFails, Return, IndInv, TypeOK
  <2>2. <<newStatus[r], newSync[r]>> \in Statuses \X [Users -> Statuses]
    BY DEF IndInv, TypeOK
  <2>3. told' \in [Users -> Statuses \X [Users -> Statuses]]
    BY <2>2 DEF Tell, TellFails, IndInv, TypeOK
  <2> QED
    BY <1>1, <1>2, <2>1, <2>3 DEF IndInv, TypeOK, document
<1>5. FreshCopies' /\ CopyTypes'
  BY <1>1, <1>3 DEF IndInv, TypeOK, FreshCopies, CopyTypes, Running, CopyOf, OwnEntry,
                    Current, document
<1>6. Progress'
  BY <1>1, <1>2, <1>3 DEF IndInv, TypeOK, Progress
<1>7. ToldLast'
  <2>1. r \notin announced /\ r \notin written
    BY <1>1 DEF IndInv, Progress
  <2> SUFFICES ASSUME (Mode = "push" /\ stale = {} /\ written \subseteq announced)',
                      NEW s \in fresh, Running(s)', (announced \ written)' = {s}
               PROVE  AllTold(<<newStatus[s], newSync[s]>>)'
    BY <1>1, <2>1 DEF ToldLast
  <2>2. s = r
    BY <1>1, <2>1
  <2>3. Tell(r)
    BY <1>1 DEF TellFails
  <2>4. \A u \in Target : u \in Audience(r) /\ u \in Users
    BY StatusAssumption DEF Audience
  <2> QED
    BY <1>1, <2>2, <2>3, <2>4 DEF Tell, AllTold
<1> QED
  BY <1>4, <1>5, <1>6, <1>7 DEF IndInv

\* Writing the message keeps it.
LEMMA WriteStep ==
  ASSUME IndInv, NEW r \in Requests, Write(r)
  PROVE  IndInv'
<1>0. class' = class /\ Type' = Type /\ Mode' = Mode
  BY SameClass DEF Next, RequestStep
<1> USE <1>0
<1>1. /\ UNCHANGED <<class, stored, inserted, newStatus, newSync, told, announced>>
      /\ fresh' = {} /\ written' = written \cup {r}
      /\ pc[r] = "write" /\ pc' = [pc EXCEPT ![r] = "done"]
      /\ status' = newStatus[r] /\ statusSync' = newSync[r]
      /\ stale' = IF r \in fresh THEN stale ELSE stale \cup {r}
  BY DEF Write, Return
<1>2. TypeOK'
  <2>1. /\ status' \in IF Type = "broadcast" THEN {NoStatus} ELSE States
        /\ statusSync' \in [Users -> IF Type = "broadcast" THEN Statuses ELSE {NoStatus}]
    BY <1>1 DEF IndInv, CopyTypes, Running
  <2>2. /\ synced' \in BOOLEAN
        /\ outcome' \in [Requests -> {"none", "ok", "error", "skipped"}]
    BY DEF Write, Return, IndInv, TypeOK
  <2> QED
    BY <1>1, <2>1, <2>2 DEF IndInv, TypeOK
<1>3. FreshCopies'
  BY <1>1 DEF FreshCopies
<1>4. CopyTypes' /\ Progress'
  BY <1>1 DEF IndInv, TypeOK, CopyTypes, Progress, Running
<1>5. ToldLast'
  <2> SUFFICES ASSUME Mode = "push", stale' = {}, announced = written \cup {r}
               PROVE  AllTold(<<newStatus[r], newSync[r]>>)
    BY <1>1 DEF ToldLast, AllTold
  <2>1. r \in fresh /\ stale = {}
    BY <1>1
  <2>2. r \notin written /\ written \subseteq announced /\ announced \ written = {r}
    BY <1>1 DEF IndInv, Progress
  <2> QED
    BY <1>1, <2>1, <2>2 DEF IndInv, ToldLast, Running
<1> QED
  BY <1>2, <1>3, <1>4, <1>5 DEF IndInv

\* Every step keeps it.
LEMMA NextIndInv == IndInv /\ [Next]_vars => IndInv'
<1> SUFFICES ASSUME IndInv, [Next]_vars PROVE IndInv'
  OBVIOUS
<1>1. CASE Insert \/ Expire
  BY <1>1, StoreStep
<1>2. ASSUME NEW r \in Requests, RequestStep(r)
      PROVE  IndInv'
  BY <1>2, FindStep, EndStep, TellStep, WriteStep DEF RequestStep
<1>3. CASE UNCHANGED vars
  <2>1. Type' = Type /\ Mode' = Mode
    BY <1>3 DEF vars, document, Type, Mode
  <2>2. TypeOK'
    BY <1>3, <2>1 DEF vars, document, copies, history, IndInv, TypeOK
  <2>3. FreshCopies'
    BY <1>3, <2>1 DEF vars, document, copies, history, IndInv, FreshCopies, Running, CopyOf,
                      OwnEntry, Current
  <2>4. CopyTypes' /\ Progress'
    BY <1>3, <2>1 DEF vars, copies, history, IndInv, CopyTypes, Progress, Running
  <2>5. ToldLast'
    BY <1>3, <2>1 DEF vars, document, copies, history, IndInv, ToldLast, Running, AllTold
  <2> QED
    BY <2>2, <2>3, <2>4, <2>5 DEF IndInv
<1> QED
  BY <1>1, <1>2, <1>3 DEF Next

-----------------------------------------------------------------------------

\* It holds always: what requests hold, what is stored and what was told agree.
THEOREM IndInvInvariant == Spec => []IndInv
  BY InitIndInv, NextIndInv, PTL DEF Spec

\* Types, for every class and every set of requests.
THEOREM StatusTypeCorrect == Spec => []TypeOK
<1>1. IndInv => TypeOK
  BY DEF IndInv
<1> QED
  BY <1>1, IndInvInvariant, PTL

\* A deleted message stays deleted unless a request writes from an old read.
THEOREM DeletionIsKept == Spec => DeletedStays
<1> DEFINE Keeps == stale' = {} =>
             /\ status = Deleted => status' = Deleted
             /\ \A u \in Users : statusSync[u] = Deleted => statusSync'[u] = Deleted
<1>1. IndInv /\ [Next]_vars => [Keeps]_vars
  <2> SUFFICES ASSUME IndInv, Next PROVE Keeps
    OBVIOUS
  <2>1. ASSUME NEW r \in Requests, Write(r)
        PROVE  Keeps
    <3> SUFFICES ASSUME stale' = {} PROVE Keeps
      OBVIOUS
    <3>1. r \in fresh /\ Running(r)
      BY <2>1 DEF Write, Running
    <3>2. CopyOf(r)
      BY <3>1 DEF IndInv, FreshCopies
    <3>3. status' = newStatus[r] /\ statusSync' = newSync[r]
      BY <2>1 DEF Write
    <3>4. Kind[r] = "delete" => Asks[r] = Deleted
      BY StatusAssumption
    <3> QED
      BY <3>2, <3>3, <3>4 DEF CopyOf, Current, OwnEntry, IndInv, TypeOK
  <2>2. ASSUME NEW r \in Requests, RequestStep(r), ~Write(r)
        PROVE  Keeps
    BY <2>2 DEF RequestStep, Find, Refuse, Tell, TellFails, WriteFails, document
  <2>3. CASE Insert \/ Expire
    BY <2>3 DEF Insert, Expire
  <2> QED
    BY <2>1, <2>2, <2>3 DEF Next
<1> QED
  BY <1>1, IndInvInvariant, PTL DEF Spec, DeletedStays

\* A fresh request changes its own user's entry and no other.
THEOREM EntriesAreOwn == Spec => OnlyOwnEntry
<1> DEFINE Own == stale' = stale =>
             \A u \in Users : statusSync'[u] # statusSync[u] =>
               \E r \in written' \ written : By[r] = u
<1>1. IndInv /\ [Next]_vars => [Own]_vars
  <2> SUFFICES ASSUME IndInv, Next PROVE Own
    OBVIOUS
  <2>1. ASSUME NEW r \in Requests, Write(r), stale' = stale,
               NEW u \in Users, statusSync'[u] # statusSync[u]
        PROVE  By[r] = u /\ r \in written' \ written
    <3>1. Running(r) /\ pc[r] = "write"
      BY <2>1 DEF Write, Running
    <3>2. CASE r \in fresh
      <4>1. CopyOf(r)
        BY <3>1, <3>2 DEF IndInv, FreshCopies
      <4>2. r \notin written
        BY <3>1 DEF IndInv, Progress
      <4> QED
        BY <2>1, <4>1, <4>2 DEF Write, CopyOf, OwnEntry, IndInv, TypeOK
    <3>3. CASE r \notin fresh
      <4>1. r \in stale
        BY <2>1, <3>3 DEF Write
      <4>2. r \in written
        BY <4>1 DEF IndInv, Progress
      <4> QED
        BY <3>1, <4>2 DEF IndInv, Progress
    <3> QED
      BY <3>2, <3>3
  <2>2. ASSUME NEW r \in Requests, RequestStep(r), ~Write(r)
        PROVE  statusSync' = statusSync
    BY <2>2 DEF RequestStep, Find, Refuse, Tell, TellFails, WriteFails, document
  <2>3. CASE Insert \/ Expire
    BY <2>3 DEF Insert, Expire
  <2> QED
    BY <2>1, <2>2, <2>3 DEF Next, RequestStep
<1> QED
  BY <1>1, IndInvInvariant, PTL DEF Spec, OnlyOwnEntry

\* Receivers were last told what is stored, under the conditions of ToldIsStored.
THEOREM LastToldIsStored == Spec => []ToldIsStored
<1>1. IndInv => ToldIsStored
  BY DEF IndInv, ToldIsStored, ToldLast, AllTold
<1> QED
  BY <1>1, IndInvInvariant, PTL

=============================================================================
