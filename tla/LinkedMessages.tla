---------------------------- MODULE LinkedMessages ----------------------------
(***************************************************************************)
(* A message of a linkage class is sent as two documents that name each    *)
(* other: the original and the linking message, a copy for the receivers.  *)
(* The send stores the copy first; an update of one document puts the      *)
(* other, with the new status, in Redis, tells of it, and then writes its  *)
(* own status.  A reader looks in Redis before MongoDB.                    *)
(*                                                                         *)
(* In memory both documents have their Target in one array, from which     *)
(* redirectMessageToSockets removes the receivers that it served.          *)
(***************************************************************************)
EXTENDS Naturals, Sequences, FiniteSets, Functions

CONSTANTS
  Writer,      \* message.OpenId of the original
  Lists,       \* Targets that a request, or the list of a class, may give
  Styles,      \* classes: mode ("push" stands for listening too) and persist
  Updates,     \* requests on the two documents
  States,      \* the states of the class
  FirstState   \* States[0]

Removed == "deleted"
Nothing == "nothing"  \* the status of what is not there

ASSUME LinkedAssumption ==
  /\ Styles \subseteq [mode : {"push", "pull"}, persist : BOOLEAN]
  /\ FirstState \in States /\ Removed \in States /\ Nothing \notin States
  /\ \A l \in Lists : l \in Seq(Range(l))

VARIABLES
  style, list,  \* the class, and the Target of the request
  sending,      \* how far the send request is
  target,       \* the Target of each document in the memory of the send request
  served,       \* the receivers that the send request found connected
  mongo, redis, \* the stores: what they have of each document
  cached,       \* the cached lists, as the status of each document in them
  update,       \* the requests on the documents
  changed,      \* history: documents that requests have set out to change
  disturbed     \* history: a request overlapped another, failed or was a bulk
                \* update, or Redis forgot a document

stores == <<mongo, redis, cached>>
sends == <<style, list, sending, target, served>>
linkedVars == <<sends, stores, update, changed, disturbed>>

Documents == {"original", "linking"}
Partner(d) == CHOOSE e \in Documents : e # d

Everyone == {Writer} \cup UNION {Range(l) : l \in Lists}
OwnerOf(d) == IF d = "original" THEN Writer ELSE Head(list)

\* A document that a store does not have, and a request not yet made.
NoDocument == [status |-> Nothing, target |-> <<>>]
IsThere(c) == c.status # Nothing
Unasked == [at |-> "new", doc |-> "original", kind |-> "update", asks |-> FirstState,
            target |-> <<>>]

LinkedInit ==
  /\ style \in Styles /\ list \in Lists
  /\ sending = "new"
  /\ target = [d \in Documents |-> list]
  /\ served = {}
  /\ mongo = [d \in Documents |-> NoDocument]
  /\ redis = [d \in Documents |-> NoDocument]
  /\ cached = [u \in Everyone |-> [d \in Documents |-> Nothing]]
  /\ update = [q \in Updates |-> Unasked]
  /\ changed = {} /\ disturbed = FALSE

-----------------------------------------------------------------------------
(***************************************************************************)
(* The removal in redirectMessageToSockets.                                *)
(***************************************************************************)

\* A slice: an array of which the first len elements are in it, until an index
\* is out of its bounds.
Slice(l) == [array |-> l, len |-> Len(l), panic |-> FALSE]
Elements(s) == SubSeq(s.array, 1, s.len)

\* append(s[:i-1], s[i+j:]...), with j = 0 in the code: the elements behind move
\* in the array that other slices share.
Cut(s, i, j) ==
  IF i + j > s.len THEN [s EXCEPT !.panic = TRUE]
  ELSE [array |-> [k \in DOMAIN s.array |->
                     IF k \in i .. s.len - 1 - j THEN s.array[k + 1 + j] ELSE s.array[k]],
        len |-> s.len - 1 - j, panic |-> s.panic]

\* A variant, as an index off by one would have it.
CutTwo(s, i) == Cut(s, i, 1)
CutOut(s, i) == Cut(s, i, 0)

\* One run of the inner loop: it ranges over the slice as it was at its start,
\* and reads the array as it has become.
Strike(slice, u) ==
  LET after[i \in 0 .. slice.len] ==
        IF i = 0 THEN slice
        ELSE LET s == after[i - 1]
             IN  IF s.panic \/ s.array[i] # u THEN s ELSE CutOut(s, i)
  IN  after[slice.len]

\* The elements of l that are in W, in their order.
Kept(l, W) ==
  LET kept[n \in 0 .. Len(l)] ==
        IF n = 0 THEN <<>>
        ELSE IF l[n] \in W THEN Append(kept[n - 1], l[n]) ELSE kept[n - 1]
  IN  kept[Len(l)]

\* A single receiver that was served is not removed.
Redirected(l, connected) ==
  LET success == Kept(l, connected)
      after[n \in 0 .. Len(success)] ==
        IF n = 0 THEN Slice(l)
        ELSE IF after[n - 1].panic THEN after[n - 1] ELSE Strike(after[n - 1], success[n])
  IN  after[IF Len(success) > 1 THEN Len(success) ELSE 0]

-----------------------------------------------------------------------------
(***************************************************************************)
(* The stores.                                                             *)
(***************************************************************************)
NewDocument(d) == [status |-> FirstState, target |-> target[d]]

\* insertOneMessage and insertOneLinkingMessage of a new document
InsertNew(d) ==
  /\ IF style.persist
     THEN mongo' = [mongo EXCEPT ![d] = NewDocument(d)] /\ UNCHANGED redis
     ELSE redis' = [redis EXCEPT ![d] = NewDocument(d)] /\ UNCHANGED mongo
  /\ UNCHANGED cached

\* findMessageById
Visible(d) == IF IsThere(redis[d]) THEN redis[d] ELSE mongo[d]

\* Redis forgets a document 24 hours after its last SET.
ForgetDocument ==
  /\ \E d \in Documents : IsThere(redis[d]) /\ redis' = [redis EXCEPT ![d] = NoDocument]
  /\ disturbed' = TRUE
  /\ UNCHANGED <<sends, mongo, cached, update, changed>>

\* getMessagesFromRedis hands the list to its user and deletes it.
Collect ==
  /\ \E u \in Everyone : cached' = [cached EXCEPT ![u] = [d \in Documents |-> Nothing]]
  /\ cached' # cached
  /\ UNCHANGED <<sends, mongo, redis, update, changed, disturbed>>

-----------------------------------------------------------------------------
(***************************************************************************)
(* The send request.                                                       *)
(***************************************************************************)

\* OpenId = Target[0] of an empty Target panics, in every mode.
NobodyListed ==
  /\ sending = "new" /\ list = <<>>
  /\ sending' = "panicked"
  /\ UNCHANGED <<style, list, target, served, stores, update, changed, disturbed>>

\* pull: the copy goes into the cached list of the first receiver.
CacheCopy ==
  /\ sending = "new" /\ style.mode = "pull" /\ list # <<>>
  /\ \/ sending' = "told" /\ cached' = [cached EXCEPT ![Head(list)]["linking"] = FirstState]
     \/ sending' = "failed" /\ UNCHANGED cached
  /\ UNCHANGED <<style, list, target, served, mongo, redis, update, changed, disturbed>>

\* push and listening: the copy goes to the receivers that are connected.
RedirectCopy ==
  /\ sending = "new" /\ style.mode = "push" /\ list # <<>>
  /\ \E connected \in SUBSET Range(list) :
       LET s == Redirected(list, connected)
       IN  /\ served' = connected
           /\ sending' = IF s.panic THEN "panicked" ELSE "told"
           /\ target' = [d \in Documents |-> IF d = "linking" THEN Elements(s) ELSE s.array]
  /\ UNCHANGED <<style, list, stores, update, changed, disturbed>>

AfterInsert(at) == IF at = "told" THEN "copied" ELSE "done"

\* insertOneLinkingMessage, then insertOneMessage
InsertDocument(d, at) ==
  /\ sending = at
  /\ \/ sending' = AfterInsert(at) /\ InsertNew(d)
     \/ sending' = "failed" /\ UNCHANGED stores
  /\ UNCHANGED <<style, list, target, served, update, changed, disturbed>>

\* The copy is stored before the original.
DocumentAt(at) == IF at = "told" THEN "linking" ELSE "original"

Send ==
  \/ NobodyListed \/ CacheCopy \/ RedirectCopy
  \/ \E at \in {"told", "copied"} : InsertDocument(DocumentAt(at), at)

-----------------------------------------------------------------------------
(***************************************************************************)
(* A request on one of the documents: an update, a deletion, or the bulk   *)
(* update, which looks in MongoDB only and tells nobody.  One that is      *)
(* refused changes nothing.                                                *)
(***************************************************************************)
InFlight(q) == update[q].at \in {"partner", "tell", "write"}
Advance(q, at) == update' = [update EXCEPT ![q].at = at]

\* The checks of validateUpdateMessageStatus and validateDeleteMessage for a
\* class that is neither exclusive nor broadcast.
Admits(kind, asks, seen) ==
  IF kind = "delete" THEN asks = Removed
  ELSE asks # Removed /\ asks # seen.status /\ seen.status # Removed

FirstStep(kind) ==
  CASE kind = "bulk" -> "write"
    [] kind = "update" -> "partner"
    [] kind = "delete" -> IF style.mode = "pull" THEN "partner" ELSE "tell"

FindDocument(q, d, kind, asks) ==
  LET seen == IF kind = "bulk" THEN mongo[d] ELSE Visible(d)
  IN  /\ update[q].at = "new"
      /\ IsThere(seen) /\ Admits(kind, asks, seen)
      /\ update' = [update EXCEPT ![q] =
           [at |-> FirstStep(kind), doc |-> d, kind |-> kind, asks |-> asks, target |-> seen.target]]
      /\ changed' = changed \cup {d}
      /\ disturbed' = (disturbed \/ kind = "bulk" \/ \E p \in Updates : InFlight(p))
      /\ UNCHANGED <<sends, stores>>

\* A variant of the next definition, that forgets the new status.
AsItWas(q, c) == c
ForReaders(q, c) == [c EXCEPT !.status = update[q].asks]

\* findLinkingMessage and addMessageToRedis: the other document gets the status
\* in Redis, although it is kept in MongoDB.
TakePartner(q) ==
  LET d == Partner(update[q].doc)
  IN  /\ update[q].at = "partner"
      /\ style.persist /\ IsThere(mongo[d])
      /\ redis' = [redis EXCEPT ![d] = ForReaders(q, mongo[d])]
      /\ Advance(q, "tell")
      /\ UNCHANGED <<sends, mongo, cached, changed, disturbed>>

\* Without persistence findLinkingMessage looks for the id of an empty message
\* and finds none; else a store may fail.
PartnerMissing(q) ==
  /\ update[q].at = "partner"
  /\ Advance(q, "failed")
  /\ disturbed' = TRUE
  /\ UNCHANGED <<sends, stores, changed>>

\* updateMessageInUserCachedMessagesRedis with the OpenId of the document that
\* was found: its own owner gets the other one.
TellByList(q) ==
  LET d == update[q].doc
  IN  /\ update[q].at = "tell" /\ style.mode = "pull"
      /\ \/ /\ Advance(q, "write")
            /\ cached' = [cached EXCEPT ![OwnerOf(d)][Partner(d)] = update[q].asks]
            /\ UNCHANGED disturbed
         \/ Advance(q, "failed") /\ disturbed' = TRUE /\ UNCHANGED cached
      /\ UNCHANGED <<sends, mongo, redis, changed>>

\* The other document is pushed, and insertOneLinkingMessage inserts it again:
\* MongoDB refuses the id and the request ends.
PushPartner(q) ==
  LET d == Partner(update[q].doc)
      l == mongo[d].target
  IN  /\ update[q].at = "tell" /\ style.mode = "push" /\ update[q].kind = "update"
      /\ \E connected \in SUBSET Range(l) :
           Advance(q, IF Redirected(l, connected).panic THEN "panicked" ELSE "failed")
      /\ disturbed' = TRUE
      /\ UNCHANGED <<sends, stores, changed>>

\* A deletion pushes the document itself, and tells its owner, by the cached
\* list if absent, unless the owner asked for it.
PushDeletion(q) ==
  LET d == update[q].doc
      l == update[q].target
  IN  /\ update[q].at = "tell" /\ style.mode = "push" /\ update[q].kind = "delete"
      /\ \E connected \in SUBSET Range(l) :
           IF Redirected(l, connected).panic
           THEN Advance(q, "panicked") /\ UNCHANGED cached
           ELSE /\ Advance(q, "write")
                /\ \/ cached' = [cached EXCEPT ![OwnerOf(d)][d] = Removed]
                   \/ UNCHANGED cached
      /\ UNCHANGED <<sends, mongo, redis, changed, disturbed>>

\* updateOneMessage and the bulk write go to the one store that the class says.
\* That MongoDB has no such document is no error.
WriteOwn(q) ==
  LET d == update[q].doc
      New(s) == IF IsThere(s[d]) THEN [s EXCEPT ![d].status = update[q].asks] ELSE s
  IN  /\ update[q].at = "write"
      /\ \/ style.persist /\ mongo' = New(mongo) /\ UNCHANGED redis
         \/ ~style.persist /\ IsThere(redis[d]) /\ redis' = New(redis) /\ UNCHANGED mongo
      /\ Advance(q, "done")
      /\ UNCHANGED <<sends, cached, changed, disturbed>>

\* An update whose write fails answers that all is well, the others pass the
\* error on.
WriteOwnFails(q) ==
  /\ update[q].at = "write"
  /\ Advance(q, IF update[q].kind = "update" THEN "done" ELSE "failed")
  /\ disturbed' = TRUE
  /\ UNCHANGED <<sends, stores, changed>>

UpdateStep(q) ==
  \/ \E d \in Documents, kind \in {"update", "delete", "bulk"}, asks \in States :
       FindDocument(q, d, kind, asks)
  \/ TakePartner(q) \/ PartnerMissing(q)
  \/ TellByList(q) \/ PushPartner(q) \/ PushDeletion(q)
  \/ WriteOwn(q) \/ WriteOwnFails(q)

LinkedNext ==
  \/ Send \/ ForgetDocument \/ Collect
  \/ \E q \in Updates : UpdateStep(q)

LinkedSpec == LinkedInit /\ [][LinkedNext]_linkedVars

-----------------------------------------------------------------------------
\* Every variable of the linked messages stays in its type.
LinkedTypeOK ==
  /\ style \in Styles /\ list \in Lists
  /\ sending \in {"new", "told", "copied", "done", "failed", "panicked"}
  /\ target \in [Documents -> Seq(Everyone)] /\ served \subseteq Everyone
  /\ \A store \in {mongo, redis} :
       store \in [Documents -> [status : States \cup {Nothing}, target : Seq(Everyone)]]
  /\ cached \in [Everyone -> [Documents -> States \cup {Nothing}]]
  /\ update \in [Updates ->
       [at : {"new", "partner", "tell", "write", "done", "failed", "panicked"},
        doc : Documents, kind : {"update", "delete", "bulk"}, asks : States, target : Seq(Everyone)]]
  /\ changed \subseteq Documents /\ disturbed \in BOOLEAN

\* The original is not kept without its copy: an update of a document that is
\* found in MongoDB finds the other one (messages.go:1147-1176).
CopyKept == IsThere(mongo["original"]) => IsThere(mongo["linking"])

Wanting == Range(list) \ served

\* "Remove all the receivers from the message who have received the message"
\* (messages.go:2198): whoever was not served stays in both documents, also with
\* receivers named twice and although the two share their array; and if nobody
\* is named twice, the copy has just those, in their order, unless a single
\* one was served.
WantingKept ==
  \A d \in Documents : \A c \in {mongo[d], redis[d]} : IsThere(c) =>
    /\ Wanting \subseteq Range(c.target)
    /\ d = "linking" /\ IsInjective(list)
         => c.target = IF Cardinality(served) > 1 THEN Kept(list, Wanting) ELSE list

\* The removal leaves the bounds of its slice only for a list that names a
\* receiver twice: the one of the request, or that of a stored original, in
\* which the removal from the copy may have doubled one.
PanicNeedsDouble ==
  /\ sending = "panicked" => list = <<>> \/ ~IsInjective(list)
  /\ \A q \in Updates : update[q].at = "panicked" =>
       LET d == update[q].doc
       IN  ~IsInjective(IF update[q].kind = "delete" THEN update[q].target
                        ELSE mongo[Partner(d)].target)

\* What the send leaves for the later requests on a pair of linked messages.
PairIntact == CopyKept /\ WantingKept /\ PanicNeedsDouble

\* Of a pulled pair that is persisted, both readers see one status, as long as
\* all updates are of the same document, one after the other, none fails and
\* Redis forgets nothing.  (Updates in both directions do part them: the
\* document that was the other one once is read from Redis, and its own update
\* goes to MongoDB.)
OneWayAgrees ==
  /\ style = [mode |-> "pull", persist |-> TRUE] /\ sending = "done"
  /\ \A q \in Updates : ~InFlight(q)
  /\ changed # Documents /\ ~disturbed
  => Visible("original").status = Visible("linking").status

=============================================================================
