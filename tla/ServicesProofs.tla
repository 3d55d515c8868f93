--------------------------- MODULE ServicesProofs ---------------------------
(***************************************************************************)
(* Proofs about the services taken together (MCServices), and about the    *)
(* two parts of them that have no module of proofs of their own.           *)
(*                                                                         *)
(* The catalogue: what an undisturbed copy promises, that no undisturbed   *)
(* request doubles an id, and that a listening class keeps the list of its *)
(* users as long as it is there.  The invariant has two parts: CopyInv,    *)
(* whatever fails, and ListsKept, as long as no call has failed.           *)
(*                                                                         *)
(* The links that a pod accepts: whoever is greeted hears the greeting     *)
(* first, a link that is left behind had a ping fail, and nothing is       *)
(* queued on a link that was taken out.  All three rest on one inductive   *)
(* invariant about ServerInstance.mu.                                      *)
(*                                                                         *)
(* The composition: the parts share no variable, so a behaviour of the     *)
(* whole is one of each part, and what is proved of a part holds of it.    *)
(***************************************************************************)
EXTENDS MCServices, ThirdPartyProofs, MessagesProofs

---------------------------------------------------------------------------
(* The catalogue *)

Pcs == {"idle", "check", "parent", "register", "insert", "find", "write", "remove",
        "unregister", "get", "set", "look", "class", "template", "list",
        "clear", "existing", "read", "add", "wipe", "done"}

Jobs ==
  [pc : Pcs, in : InputSet \cup {NoDoc}, got : DocumentSet \cup {NoDoc},
   class : DocumentSet \cup {NoDoc}, at : 1 .. 3, have : SUBSET (Collections \X Keys),
   todo : SUBSET DocumentSet, ok : BOOLEAN, quiet : BOOLEAN, alone : BOOLEAN,
   failed : BOOLEAN, unlisted : BOOLEAN]

CatalogueTyped ==
  /\ docs \subseteq DocumentSet
  /\ job \in [Requests -> Jobs]
  /\ serial \in Nat /\ faults \in Nat /\ faults <= MaxFaults /\ indexed \in BOOLEAN

Program(r) ==
  /\ job[r].pc # "idle" => In(r) \in InputSet
  /\ job[r].pc # "idle" /\ In(r).op = "create" => In(r).key \in Keys /\ Len(In(r).key) = 1
  /\ job[r].pc # "idle" /\ In(r).op = "copy" => In(r).app \in AppIds
  /\ job[r].pc \in {"check", "parent", "register", "insert"} => In(r).op = "create"
  /\ job[r].pc = "check" => In(r).kind \in Checked
  /\ job[r].pc = "find" =>
       In(r).op \in {"get", "update", "delete", "subscribe"} /\ In(r).kind \in Checked
  /\ job[r].pc = "look" => In(r).op \in {"get", "send"}
  /\ job[r].pc = "write" => In(r).op = "update" /\ (In(r).kind \in Checked => job[r].got \in DocumentSet)
  /\ job[r].pc = "remove" => In(r).op = "delete" /\ (In(r).kind \in Checked =>
       job[r].got \in DocumentSet /\ job[r].got.kind = In(r).kind /\ job[r].got.key = In(r).key)
  /\ job[r].pc = "unregister" => In(r).op = "delete" /\ In(r).kind = "class"
  /\ job[r].pc \in {"clear", "existing", "read", "add", "wipe"} => In(r).op = "copy"
  /\ job[r].pc \in {"template", "list"} \/ job[r].unlisted =>
       job[r].class \in DocumentSet /\ job[r].class.kind = "class"
  /\ job[r].pc = "list" \/ job[r].unlisted => job[r].class.mode = "listening"
  /\ job[r].unlisted => job[r].pc = "done"

\* What a step of r leaves of the other requests.
Frame(r) ==
  \A q \in Requests \ {r} :
    /\ job'[q].pc = job[q].pc /\ job'[q].in = job[q].in /\ job'[q].got = job[q].got
    /\ job'[q].class = job[q].class /\ job'[q].at = job[q].at /\ job'[q].have = job[q].have
    /\ job'[q].todo = job[q].todo /\ job'[q].ok = job[q].ok /\ job'[q].failed = job[q].failed
    /\ job'[q].unlisted = job[q].unlisted
    /\ job'[q].quiet => job[q].quiet
    /\ job'[q].alone => job[q].alone

Undisturbed(r) == \A q \in Requests \ {r} : job'[q].quiet => docs' = docs

\* Assignments to the fields of a request keep its type.
LEMMA SetFields ==
  ASSUME NEW j \in Jobs
  PROVE  /\ \A b \in BOOLEAN : [j EXCEPT !.quiet = b] \in Jobs /\ [j EXCEPT !.alone = b] \in Jobs
         /\ \A pc \in Pcs : [j EXCEPT !.pc = pc] \in Jobs
         /\ \A pc \in Pcs, ok \in BOOLEAN : [j EXCEPT !.pc = pc, !.ok = ok] \in Jobs
         /\ \A pc \in Pcs, f \in BOOLEAN : [j EXCEPT !.pc = pc, !.failed = f] \in Jobs
  BY DEF Jobs

\* What Move does: r becomes j, and others are no longer undisturbed if r writes.
LEMMA Moved ==
  ASSUME CatalogueTyped, NEW r \in Requests, NEW j \in Jobs, NEW w \in BOOLEAN, Move(r, j, w)
  PROVE  /\ job' \in [Requests -> Jobs] /\ job'[r] = j /\ Frame(r)
         /\ \A q \in Requests \ {r} : job'[q].alone = job[q].alone
         /\ w => \A q \in Requests \ {r} : ~job'[q].quiet
<1>1. \A q \in Requests : job[q] \in Jobs
  BY DEF CatalogueTyped
<1>2. \A q \in Requests : [job[q] EXCEPT !.quiet = FALSE] \in Jobs
  BY <1>1, SetFields
<1>3. job' \in [Requests -> Jobs] /\ job'[r] = j
  BY <1>1, <1>2 DEF Move
<1>4. \A q \in Requests \ {r} : job'[q] = IF w THEN [job[q] EXCEPT !.quiet = FALSE] ELSE job[q]
  BY <1>1, <1>2 DEF Move
<1>5. ASSUME NEW q \in Requests \ {r}
      PROVE  LET o == [job[q] EXCEPT !.quiet = FALSE] IN
        /\ o.pc = job[q].pc /\ o.in = job[q].in /\ o.got = job[q].got
        /\ o.class = job[q].class /\ o.at = job[q].at /\ o.have = job[q].have
        /\ o.todo = job[q].todo /\ o.ok = job[q].ok /\ o.failed = job[q].failed
        /\ o.unlisted = job[q].unlisted /\ o.quiet = FALSE /\ o.alone = job[q].alone
  BY <1>1 DEF Jobs
<1>6. ASSUME NEW q \in Requests \ {r}
      PROVE  /\ job'[q].pc = job[q].pc /\ job'[q].in = job[q].in /\ job'[q].got = job[q].got
             /\ job'[q].class = job[q].class /\ job'[q].at = job[q].at /\ job'[q].have = job[q].have
             /\ job'[q].todo = job[q].todo /\ job'[q].ok = job[q].ok
             /\ job'[q].failed = job[q].failed /\ job'[q].unlisted = job[q].unlisted
             /\ job'[q].alone = job[q].alone /\ (job'[q].quiet => job[q].quiet)
  <2>1. CASE w
    <3>1. PICK o : o = [job[q] EXCEPT !.quiet = FALSE]
      OBVIOUS
    <3>2. job'[q] = o
      BY <2>1, <3>1, <1>4
    <3> QED
      BY <3>1, <3>2, <1>5
  <2>2. CASE ~w
    BY <2>2, <1>4
  <2> QED
    BY <2>1, <2>2
<1>8. Frame(r)
  BY <1>6 DEF Frame
<1>7. w => \A q \in Requests \ {r} : ~job'[q].quiet
  BY <1>4, <1>5
<1> QED
  BY <1>3, <1>6, <1>7, <1>8

Collected(r) == {Collection(i) : i \in 1 .. (job[r].at - 1)}

\* A request that nobody disturbed inserts an id that it has found to be free.
CheckedFree(r) ==
  /\ job[r].pc \in {"parent", "register", "insert"} /\ In(r).kind \in Checked
  /\ job[r].quiet /\ ~job[r].failed
  => FreeId(r)

\* What a copy has collected so far.
Copying(r) == job[r].pc # "idle" /\ In(r).op = "copy"

Gathered(r) ==
  LET j == job[r] IN Copying(r) =>
    /\ IsFiniteSet(j.todo)
    /\ \A d, e \in j.todo : d.kind = e.kind /\ d.id = e.id => d = e
    /\ j.pc \in {"clear", "existing"} => j.todo = {}
    /\ j.pc = "clear" => j.have = {}
    /\ j.pc = "read" => \A d \in j.todo : d.kind \in Collected(r)
    /\ \A d \in j.todo : ~Skipped(r, d.kind, d)
    /\ j.ok => j.pc = "done"

Noted(r, k) == \A d \in Of(k, In(r).app) : <<k, d.key>> \in job[r].have

\* While nobody disturbs a copy: it knows the ids that are there and which it is
\* about to add.
Ahead(r) ==
  LET j == job[r] IN Copying(r) /\ j.quiet /\ ~j.failed =>
    /\ j.pc \in {"clear", "existing"} => \A k \in Collected(r) : Noted(r, k)
    /\ j.pc = "read" => \A i \in 1 .. 3 : Noted(r, Collection(i))
    /\ j.pc = "add" => \A i \in j.at .. 3 : Noted(r, Collection(i))

Held(r) == \A h \in job[r].have : \E e \in Of(h[1], In(r).app) : e.key = h[2]
Taken(r, k) == \A d \in Of(k, In(r).from) : Skipped(r, k, d) \/ d \in job[r].todo
Added(r, k) ==
  \A d \in job[r].todo : d.kind = k =>
    \E e \in Of(k, In(r).app) : e.key = CopyKey(d, In(r).app) /\ e.uses = CopyUses(d, In(r).app)

\* While nobody disturbs it, it has taken, and then added, what it must.
Behind(r) ==
  LET j == job[r] IN Copying(r) /\ j.quiet /\ In(r).from # In(r).app =>
    /\ j.pc \in {"existing", "read", "add"} \/ j.ok => Held(r)
    /\ j.pc = "read" => \A k \in Collected(r) : Taken(r, k)
    /\ j.pc = "add" => \A i \in 1 .. 3 : Taken(r, Collection(i))
    /\ j.pc = "add" => \A k \in Collected(r) : Added(r, k)
    /\ j.ok => \A i \in 1 .. 3 : Taken(r, Collection(i)) /\ Added(r, Collection(i))

Own(r) == Program(r) /\ CheckedFree(r) /\ Gathered(r) /\ Ahead(r) /\ Behind(r)

Result(r) == CatalogueTyped' /\ Frame(r) /\ Undisturbed(r)

\* A step of r that may write documents.
LEMMA Stepped ==
  ASSUME CatalogueTyped, NEW r \in Requests, NEW j \in Jobs, NEW w \in BOOLEAN, Move(r, j, w),
         Works \/ Fails, docs' \subseteq DocumentSet, w \/ docs' = docs, serial' \in Nat,
         indexed' = indexed
  PROVE  Result(r) /\ job'[r] = j
<1>1. faults' \in Nat /\ faults' <= MaxFaults
  BY CatalogueAssumption DEF CatalogueTyped, Works, Fails
<1>2. job' \in [Requests -> Jobs] /\ job'[r] = j /\ Frame(r)
      /\ (w => \A q \in Requests \ {r} : ~job'[q].quiet)
  BY Moved, Zenon
<1>3. Undisturbed(r)
  BY <1>2 DEF Undisturbed
<1>4. CatalogueTyped'
  BY <1>1, <1>2 DEF CatalogueTyped
<1> QED
  BY <1>2, <1>3, <1>4 DEF Result

\* A step that leaves the documents alone.
LEMMA Looked ==
  ASSUME CatalogueTyped, NEW r \in Requests, NEW j \in Jobs, NEW w \in BOOLEAN, Move(r, j, w),
         Works \/ Fails, UNCHANGED <<docs, serial, indexed>>
  PROVE  Result(r) /\ job'[r] = j
<1>1. docs' \subseteq DocumentSet /\ docs' = docs /\ serial' \in Nat /\ indexed' = indexed
  BY DEF CatalogueTyped
<1> QED
  BY <1>1, Stepped, Zenon

\* The type of one request.
LEMMA JobOf == ASSUME CatalogueTyped, NEW r \in Requests PROVE job[r] \in Jobs
  BY DEF CatalogueTyped

\* What is known of r, and a step Check of it.
LEMMA CheckOwn ==
  ASSUME CatalogueTyped, NEW r \in Requests, Own(r), Check(r)
  PROVE  Result(r) /\ Own(r)'
<1>j. job[r] \in Jobs
  BY JobOf
<1>a. AfterCheck(r) \in Pcs /\ "done" \in Pcs
  BY DEF AfterCheck, Pcs
<1>1. CASE FreeId(r) /\ Works /\ Goto(r, AfterCheck(r))
  <2>1. [job[r] EXCEPT !.pc = AfterCheck(r)] \in Jobs
    BY <1>j, <1>a, SetFields
  <2>2. Result(r) /\ job'[r] = [job[r] EXCEPT !.pc = AfterCheck(r)]
    BY <2>1, <1>1, Looked DEF Check, Goto
  <2>3. docs' = docs
    BY DEF Check
  <2>4. Program(r)'
    BY <1>j, <2>2, <1>1 DEF Own, Program, Check, At, In, Jobs, AfterCheck
  <2>5. Own(r)'
    BY <1>j, <2>2, <2>3, <2>4, <1>1 DEF Own, CheckedFree, FreeId, Named, Check, At, In, Jobs,
       Gathered, Ahead, Behind, Copying
  <2> QED
    BY <2>2, <2>5
<1>2. CASE ~FreeId(r) /\ Works /\ Answer(r, FALSE, FALSE)
  <2>1. [job[r] EXCEPT !.pc = "done", !.ok = FALSE] \in Jobs
    BY <1>j, <1>a, SetFields
  <2>2. Result(r) /\ job'[r] = [job[r] EXCEPT !.pc = "done", !.ok = FALSE]
    BY <2>1, <1>2, Looked DEF Check, Answer
  <2>4. Own(r)'
    BY <1>j, <2>2, <1>2 DEF Own, Program, Check, At, In, Jobs, CheckedFree,
       Gathered, Ahead, Behind, Copying
  <2> QED
    BY <2>2, <2>4
<1>3. CASE Fails /\ Failed(r, AfterCheck(r))
  <2>1. [job[r] EXCEPT !.pc = AfterCheck(r), !.failed = TRUE] \in Jobs
    BY <1>j, <1>a, SetFields
  <2>2. Result(r) /\ job'[r] = [job[r] EXCEPT !.pc = AfterCheck(r), !.failed = TRUE]
    BY <2>1, <1>3, Looked DEF Check, Failed
  <2>4. Own(r)'
    BY <1>j, <2>2, <1>3 DEF Own, Program, Check, At, In, Jobs, CheckedFree,
       Gathered, Ahead, Behind, Copying, AfterCheck
  <2> QED
    BY <2>2, <2>4
<1> QED
  BY <1>1, <1>2, <1>3 DEF Check

\* The three ways of moving on without a document being written: Goto,
LEMMA GotoResult ==
  ASSUME CatalogueTyped, NEW r \in Requests, NEW pc \in Pcs, Goto(r, pc), Works \/ Fails,
         UNCHANGED <<docs, serial, indexed>>
  PROVE  Result(r) /\ job'[r] = [job[r] EXCEPT !.pc = pc]
<1>1. [job[r] EXCEPT !.pc = pc] \in Jobs
  BY JobOf, SetFields
<1> QED
  BY <1>1, Looked DEF Goto

\* Answer,
LEMMA AnswerResult ==
  ASSUME CatalogueTyped, NEW r \in Requests, NEW ok \in BOOLEAN, NEW w \in BOOLEAN,
         Answer(r, ok, w), Works \/ Fails, UNCHANGED <<docs, serial, indexed>>
  PROVE  Result(r) /\ job'[r] = [job[r] EXCEPT !.pc = "done", !.ok = ok]
<1>1. [job[r] EXCEPT !.pc = "done", !.ok = ok] \in Jobs
  BY JobOf, SetFields DEF Pcs
<1> QED
  BY <1>1, Looked DEF Answer

\* and Failed.
LEMMA FailedResult ==
  ASSUME CatalogueTyped, NEW r \in Requests, NEW pc \in Pcs, Failed(r, pc), Works \/ Fails,
         UNCHANGED <<docs, serial, indexed>>
  PROVE  Result(r) /\ job'[r] = [job[r] EXCEPT !.pc = pc, !.failed = TRUE]
<1>1. [job[r] EXCEPT !.pc = pc, !.failed = TRUE] \in Jobs
  BY JobOf, SetFields
<1> QED
  BY <1>1, Looked DEF Failed

\* Nothing is promised of a request that neither copies nor is about to insert.
LEMMA OtherOwn ==
  ASSUME NEW r \in Requests, Program(r)', ~Copying(r)',
         job'[r].pc \notin {"parent", "register", "insert"}
  PROVE  Own(r)'
  BY DEF Own, CheckedFree, Gathered, Ahead, Behind, Copying

\* A request that is answered, and copies nothing.
LEMMA DoneOwn ==
  ASSUME NEW r \in Requests, Program(r), job[r].pc \notin {"idle", "done"}, In(r).op # "copy",
         job'[r].pc = "done", job'[r].in = job[r].in, job'[r].unlisted = job[r].unlisted
  PROVE  Own(r)'
<1>1. Program(r)'
  BY DEF Program, In
<1>2. ~Copying(r)'
  BY DEF Copying, In
<1> QED
  BY <1>1, <1>2, OtherOwn

\* An answer of anything but a copy ends what is promised of it;
LEMMA AnswerOwn ==
  ASSUME CatalogueTyped, NEW r \in Requests, Own(r), NEW ok \in BOOLEAN, NEW w \in BOOLEAN,
         Answer(r, ok, w), Works \/ Fails, UNCHANGED <<docs, serial, indexed>>,
         job[r].pc \notin {"idle", "done"}, In(r).op # "copy"
  PROVE  Result(r) /\ Own(r)'
<1>1. Result(r) /\ job'[r] = [job[r] EXCEPT !.pc = "done", !.ok = ok]
  BY AnswerResult, Zenon
<1>2. job'[r].pc = "done" /\ job'[r].in = job[r].in /\ job'[r].unlisted = job[r].unlisted
  BY <1>1, JobOf DEF Jobs
<1> QED
  BY <1>1, <1>2, DoneOwn DEF Own

\* so does a failure.
LEMMA FailedOwn ==
  ASSUME CatalogueTyped, NEW r \in Requests, Own(r), Failed(r, "done"), Works \/ Fails,
         UNCHANGED <<docs, serial, indexed>>, job[r].pc \notin {"idle", "done"}, In(r).op # "copy"
  PROVE  Result(r) /\ Own(r)'
<1>0. "done" \in Pcs
  BY DEF Pcs
<1>1. Result(r) /\ job'[r] = [job[r] EXCEPT !.pc = "done", !.failed = TRUE]
  BY <1>0, FailedResult
<1>2. job'[r].pc = "done" /\ job'[r].in = job[r].in /\ job'[r].unlisted = job[r].unlisted
  BY <1>1, JobOf DEF Jobs
<1> QED
  BY <1>1, <1>2, DoneOwn DEF Own

\* What is known of r, and a step Parent of it.
LEMMA ParentOwn ==
  ASSUME CatalogueTyped, NEW r \in Requests, Own(r), Parent(r)
  PROVE  Result(r) /\ Own(r)'
<1>j. job[r] \in Jobs /\ In(r) \in InputSet /\ job[r].pc = "parent" /\ In(r).op = "create"
      /\ UNCHANGED <<docs, serial, indexed>>
  BY JobOf DEF Own, Program, Parent, At
<1>1. ASSUME NEW p \in Named("class", In(r).parent), Works,
             Move(r, [job[r] EXCEPT !.in = Inherit(In(r), p),
                    !.pc = IF Inherit(In(r), p).mode = "listening" THEN "register" ELSE "insert"], FALSE)
      PROVE  Result(r) /\ Own(r)'
  <2> DEFINE in == Inherit(In(r), p)
  <2> DEFINE pc == IF in.mode = "listening" THEN "register" ELSE "insert"
  <2>p. p \in DocumentSet
    BY DEF CatalogueTyped, Named
  <2>i. in \in InputSet /\ in.op = "create" /\ in.key = In(r).key /\ in.kind = In(r).kind
    BY <1>j, <2>p DEF Inherit, InputSet, DocumentSet
  <2>j. [job[r] EXCEPT !.in = in, !.pc = pc] \in Jobs
    BY <1>j, <2>i DEF Jobs, Pcs
  <2>2. Result(r) /\ job'[r] = [job[r] EXCEPT !.in = in, !.pc = pc]
    BY <1>1, <1>j, <2>j, Looked
  <2>3. /\ job'[r].in = in /\ job'[r].pc \in {"register", "insert"}
        /\ job'[r].unlisted = job[r].unlisted /\ job'[r].quiet = job[r].quiet
        /\ job'[r].failed = job[r].failed
    BY <1>j, <2>2 DEF Jobs
  <2> HIDE DEF in, pc
  <2>4. Program(r)'
    BY <1>j, <2>i, <2>3 DEF Own, Program, In
  <2>5. Own(r)'
    BY <1>j, <2>i, <2>3, <2>4 DEF Own, CheckedFree, FreeId, Named, In,
       Gathered, Ahead, Behind, Copying
  <2> QED
    BY <2>2, <2>5
<1>2. CASE Works /\ Answer(r, FALSE, FALSE)
  BY <1>j, <1>2, AnswerOwn
<1>3. CASE Fails /\ Failed(r, "done")
  BY <1>j, <1>3, FailedOwn
<1> QED
  BY <1>1, <1>2, <1>3 DEF Parent

\* What is known of r, and a step Register of it.
LEMMA RegisterOwn ==
  ASSUME CatalogueTyped, NEW r \in Requests, Own(r), Register(r)
  PROVE  Result(r) /\ Own(r)'
<1>j. job[r] \in Jobs /\ job[r].pc = "register" /\ In(r).op = "create"
      /\ UNCHANGED <<docs, serial, indexed>>
  BY JobOf DEF Own, Program, Register, At
<1>1. CASE Works /\ Move(r, [job[r] EXCEPT !.pc = "insert"], TRUE)
  <2>1. [job[r] EXCEPT !.pc = "insert"] \in Jobs
    BY <1>j, SetFields DEF Pcs
  <2>2. Result(r) /\ job'[r] = [job[r] EXCEPT !.pc = "insert"]
    BY <1>1, <1>j, <2>1, Looked
  <2>4. Program(r)'
    BY <1>j, <2>2 DEF Own, Program, In, Jobs
  <2>5. Own(r)'
    BY <1>j, <2>2, <2>4 DEF Own, CheckedFree, FreeId, Named, In, Jobs,
       Gathered, Ahead, Behind, Copying
  <2> QED
    BY <2>2, <2>5
<1>3. CASE Fails /\ Failed(r, "done")
  BY <1>j, <1>3, FailedOwn
<1> QED
  BY <1>1, <1>3 DEF Register

\* The document that createConfiguration, createTemplate or createScene inserts.
LEMMA NewDocFields ==
  ASSUME CatalogueTyped, NEW r \in Requests, Own(r), job[r].pc = "insert"
  PROVE  /\ NewDoc(r) \in DocumentSet
         /\ NewDoc(r).id = serial /\ NewDoc(r).kind = In(r).kind /\ NewDoc(r).key = In(r).key
         /\ NewDoc(r).by = "create" /\ NewDoc(r).mode = In(r).mode
         /\ NewDoc(r).quiet = (job[r].quiet /\ ~job[r].failed)
         /\ NewDoc(r).alone = job[r].alone /\ NewDoc(r).edited = FALSE
<1>1. job[r] \in Jobs /\ In(r) \in InputSet /\ In(r).key \in Keys
  BY JobOf DEF Own, Program
<1>2. serial \in Nat
  BY DEF CatalogueTyped
<1>3. job[r].alone \in BOOLEAN /\ (job[r].quiet /\ ~job[r].failed) \in BOOLEAN
  BY <1>1 DEF Jobs
<1> DEFINE D == Document(serial, In(r).kind, In(r).key, In(r).app, In(r).mode)
<1>4. D \in DocumentSet /\ D.id = serial /\ D.kind = In(r).kind /\ D.key = In(r).key
      /\ D.by = "create" /\ D.mode = In(r).mode /\ D.edited = FALSE
  BY <1>1, <1>2 DEF Document, DocumentSet, InputSet, Uses
<1>5. In(r).uses \in Uses
  BY <1>1 DEF InputSet
<1> HIDE DEF D
<1> DEFINE q == job[r].quiet /\ ~job[r].failed
           a == job[r].alone
           u == In(r).uses
<1>6. q \in BOOLEAN /\ a \in BOOLEAN /\ u \in Uses
  BY <1>3, <1>5
<1>7. NewDoc(r) = [D EXCEPT !.uses = u, !.quiet = q, !.alone = a]
  BY DEF NewDoc, D
<1> HIDE DEF q, a, u
<1>8. /\ NewDoc(r) \in DocumentSet
      /\ NewDoc(r).id = serial /\ NewDoc(r).kind = In(r).kind /\ NewDoc(r).key = In(r).key
      /\ NewDoc(r).by = "create" /\ NewDoc(r).mode = In(r).mode
      /\ NewDoc(r).quiet = q /\ NewDoc(r).alone = a /\ NewDoc(r).edited = FALSE
  BY <1>4, <1>6, <1>7 DEF DocumentSet
<1> QED
  BY <1>8 DEF q, a

\* What is known of r, and a step Insert of it.
LEMMA InsertOwn ==
  ASSUME CatalogueTyped, NEW r \in Requests, Own(r), Insert(r)
  PROVE  Result(r) /\ Own(r)'
<1>j. job[r] \in Jobs /\ job[r].pc = "insert" /\ In(r).op = "create"
      /\ UNCHANGED indexed /\ serial \in Nat /\ docs \subseteq DocumentSet
  BY JobOf DEF Own, Program, Insert, At, CatalogueTyped
<1>1. CASE Works /\ docs' = docs \cup {NewDoc(r)} /\ serial' = serial + 1 /\ Answer(r, TRUE, TRUE)
  <2>1. [job[r] EXCEPT !.pc = "done", !.ok = TRUE] \in Jobs
    BY <1>j, SetFields DEF Pcs
  <2>n. NewDoc(r) \in DocumentSet
    BY <1>j, NewDocFields
  <2>d. docs' \subseteq DocumentSet /\ serial' \in Nat
    BY <1>1, <1>j, <2>n
  <2>2. Result(r) /\ job'[r] = [job[r] EXCEPT !.pc = "done", !.ok = TRUE]
    BY <1>1, <1>j, <2>1, <2>d, Stepped DEF Answer
  <2>3. job'[r].pc = "done" /\ job'[r].in = job[r].in /\ job'[r].unlisted = job[r].unlisted
    BY <2>2, <1>j DEF Jobs
  <2> QED
    BY <1>j, <2>2, <2>3, DoneOwn DEF Own
<1>2. CASE Works /\ Answer(r, FALSE, FALSE) /\ UNCHANGED <<docs, serial>>
  BY <1>j, <1>2, AnswerOwn
<1>3. CASE Fails /\ Failed(r, "done") /\ UNCHANGED <<docs, serial>>
  BY <1>j, <1>3, FailedOwn
<1> QED
  BY <1>1, <1>2, <1>3 DEF Insert

\* A request that goes on with what it has read.
LEMMA ReadOwn ==
  ASSUME CatalogueTyped, NEW r \in Requests, Own(r), NEW j \in Jobs, Works \/ Fails,
         Move(r, j, FALSE), UNCHANGED <<docs, serial, indexed>>,
         In(r).op # "copy", job[r].pc # "idle", j.in = job[r].in,
         j.pc \notin {"parent", "register", "insert"}, Program(r)'
  PROVE  Result(r) /\ Own(r)'
<1>1. Result(r) /\ job'[r] = j
  BY Looked
<1>2. ~Copying(r)'
  BY <1>1 DEF Copying, In
<1>3. job'[r].pc \notin {"parent", "register", "insert"}
  BY <1>1
<1> QED
  BY <1>1, <1>2, <1>3, OtherOwn

\* What is known of r, and a step Find of it.
LEMMA FindOwn ==
  ASSUME CatalogueTyped, NEW r \in Requests, Own(r), Find(r)
  PROVE  Result(r) /\ Own(r)'
<1>j. job[r] \in Jobs /\ job[r].pc = "find" /\ UNCHANGED <<docs, serial, indexed>>
      /\ In(r).op \in {"get", "update", "delete", "subscribe"} /\ In(r).kind \in Checked
  BY JobOf DEF Own, Program, Find
<1>1. ASSUME NEW d \in Named(In(r).kind, In(r).key), Works,
             Move(r, [job[r] EXCEPT !.pc = AfterFind(r, d), !.got = d], FALSE)
      PROVE  Result(r) /\ Own(r)'
  <2>d. d \in DocumentSet /\ d.kind = In(r).kind /\ d.key = In(r).key
    BY DEF CatalogueTyped, Named
  <2>a. /\ In(r).op = "get" => AfterFind(r, d) = "done"
        /\ In(r).op = "update" => AfterFind(r, d) = "write"
        /\ In(r).op = "delete" => AfterFind(r, d) = "remove"
        /\ In(r).op = "subscribe" => AfterFind(r, d) \in {"get", "done"}
    BY DEF AfterFind
  <2> DEFINE pc == AfterFind(r, d)
  <2>b. pc \in {"done", "write", "remove", "get"}
    BY <1>j, <2>a
  <2> HIDE DEF pc
  <2> DEFINE j == [job[r] EXCEPT !.pc = pc, !.got = d]
  <2>1. j \in Jobs /\ j.in = job[r].in /\ j.pc = pc /\ j.got = d /\ j.unlisted = job[r].unlisted
        /\ j.class = job[r].class
    BY <1>j, <2>d, <2>b DEF Jobs, Pcs
  <2>2. Move(r, j, FALSE)
    BY <1>1 DEF pc
  <2> HIDE DEF j
  <2>3. job'[r] = j
    BY <1>1, <1>j, <2>1, <2>2, Looked
  <2>4. Program(r)'
    BY <1>j, <2>1, <2>3, <2>a, <2>d DEF Own, Program, In, pc
  <2> QED
    BY <1>1, <1>j, <2>1, <2>2, <2>b, <2>4, ReadOwn
<1>2. CASE Works /\ Answer(r, FALSE, FALSE)
  BY <1>j, <1>2, AnswerOwn
<1>3. CASE Fails /\ Failed(r, "done")
  BY <1>j, <1>3, FailedOwn
<1> QED
  BY <1>1, <1>2, <1>3 DEF Find

\* What an update makes of a document is the same document.
LEMMA EditFields ==
  ASSUME CatalogueTyped, NEW r \in Requests, Own(r), job[r].pc = "write", NEW d \in docs,
         d.kind \in Checked => In(r).kind \in Checked
  PROVE  /\ Edit(d, r) \in DocumentSet
         /\ Edit(d, r).id = d.id /\ Edit(d, r).kind = d.kind /\ Edit(d, r).key = d.key
         /\ Edit(d, r).by = d.by /\ Edit(d, r).alone = d.alone /\ Edit(d, r).quiet = d.quiet
         /\ Edit(d, r).edited = TRUE
<1>1. job[r] \in Jobs /\ In(r) \in InputSet /\ d \in DocumentSet
      /\ (In(r).kind \in Checked => job[r].got \in DocumentSet)
  BY JobOf DEF Own, Program, CatalogueTyped
<1> DEFINE base == IF d.kind \in Checked THEN job[r].got ELSE d
<1>2. base.app \in AppIds \cup {NoApp} /\ base.mode \in STRING /\ base.uses \in Uses
  <2>1. CASE d.kind \in Checked /\ job[r].got \in DocumentSet
    BY <1>1, <2>1 DEF DocumentSet
  <2>2. CASE d.kind \notin Checked
    BY <1>1, <2>2 DEF DocumentSet
  <2> QED
    BY <1>1, <2>1, <2>2
<1> HIDE DEF base
<1> DEFINE app == IF In(r).app = NoApp THEN base.app ELSE In(r).app
           mode == IF In(r).mode = "" THEN base.mode ELSE In(r).mode
           uses == IF In(r).uses = {} THEN base.uses ELSE In(r).uses
<1>3. app \in AppIds \cup {NoApp} /\ mode \in STRING /\ uses \in Uses
  BY <1>1, <1>2 DEF InputSet
<1>4. Edit(d, r) = [d EXCEPT !.app = app, !.mode = mode, !.uses = uses, !.edited = TRUE]
  BY DEF Edit, base
<1> HIDE DEF app, mode, uses
<1> QED
  BY <1>1, <1>3, <1>4 DEF DocumentSet

\* What is known of r, and a step Write of it.
LEMMA UpdateOwn ==
  ASSUME CatalogueTyped, NEW r \in Requests, Own(r), Write(r)
  PROVE  Result(r) /\ Own(r)'
<1>j. job[r] \in Jobs /\ job[r].pc = "write" /\ In(r).op = "update" /\ UNCHANGED <<serial, indexed>>
      /\ serial \in Nat /\ docs \subseteq DocumentSet
  BY JobOf DEF Own, Program, Write, At, CatalogueTyped
<1>1. ASSUME NEW d \in Matches(r), Works, docs' = Written(d, r), Answer(r, TRUE, TRUE)
      PROVE  Result(r) /\ Own(r)'
  <2>1. [job[r] EXCEPT !.pc = "done", !.ok = TRUE] \in Jobs
    BY <1>j, SetFields DEF Pcs
  <2>n. d \in docs /\ (d.kind \in Checked => In(r).kind \in Checked)
    BY <1>j DEF Matches, Named
  <2>e. Edit(d, r) \in DocumentSet
    BY <1>j, <2>n, EditFields
  <2>d. docs' \subseteq DocumentSet /\ serial' \in Nat
    BY <1>1, <1>j, <2>e DEF Written
  <2>2. Result(r) /\ job'[r] = [job[r] EXCEPT !.pc = "done", !.ok = TRUE]
    BY <1>1, <1>j, <2>1, <2>d, Stepped DEF Answer
  <2>3. job'[r].pc = "done" /\ job'[r].in = job[r].in /\ job'[r].unlisted = job[r].unlisted
    BY <2>2, <1>j DEF Jobs
  <2> QED
    BY <1>j, <2>2, <2>3, DoneOwn DEF Own
<1>2. CASE Works /\ Answer(r, TRUE, FALSE) /\ UNCHANGED docs
  BY <1>j, <1>2, AnswerOwn
<1>3. CASE Fails /\ Failed(r, "done") /\ UNCHANGED docs
  BY <1>j, <1>3, FailedOwn
<1> QED
  BY <1>1, <1>2, <1>3 DEF Write

\* What is known of r, and a step Remove of it.
LEMMA RemoveOwn ==
  ASSUME CatalogueTyped, NEW r \in Requests, Own(r), Remove(r)
  PROVE  Result(r) /\ Own(r)'
<1>j. job[r] \in Jobs /\ job[r].pc = "remove" /\ In(r).op = "delete" /\ UNCHANGED <<serial, indexed>>
      /\ serial \in Nat /\ docs' \subseteq DocumentSet /\ Works
  BY JobOf DEF Own, Program, Remove, At, CatalogueTyped
<1> DEFINE pc == AfterRemove(r)
<1>a. pc \in {"unregister", "done"} /\ (pc = "unregister" => In(r).kind = "class")
  BY DEF AfterRemove
<1>b. Move(r, [job[r] EXCEPT !.pc = pc, !.ok = TRUE], TRUE)
  BY DEF Remove
<1> HIDE DEF pc
<1>1. [job[r] EXCEPT !.pc = pc, !.ok = TRUE] \in Jobs
  BY <1>j, <1>a, SetFields DEF Pcs
<1>2. Result(r) /\ job'[r] = [job[r] EXCEPT !.pc = pc, !.ok = TRUE]
  BY <1>b, <1>j, <1>1, Stepped
<1>3. job'[r].pc = pc /\ job'[r].in = job[r].in /\ job'[r].unlisted = job[r].unlisted
      /\ job'[r].class = job[r].class
  BY <1>2, <1>j DEF Jobs
<1>4. Program(r)'
  BY <1>j, <1>3, <1>a DEF Own, Program, In
<1>5. ~Copying(r)' /\ job'[r].pc \notin {"parent", "register", "insert"}
  BY <1>j, <1>3, <1>a DEF Copying, In
<1> QED
  BY <1>2, <1>4, <1>5, OtherOwn

\* What is known of r, and a step RemoveFails of it.
LEMMA RemoveFailsOwn ==
  ASSUME CatalogueTyped, NEW r \in Requests, Own(r), RemoveFails(r)
  PROVE  Result(r) /\ Own(r)'
<1>j. job[r].pc = "remove" /\ In(r).op = "delete" /\ UNCHANGED <<docs, serial, indexed>>
      /\ Fails /\ Failed(r, "done")
  BY DEF RemoveFails, At
<1> QED
  BY <1>j, FailedOwn

\* What is known of r, and a step Unregister of it.
LEMMA UnregisterOwn ==
  ASSUME CatalogueTyped, NEW r \in Requests, Own(r), Unregister(r)
  PROVE  Result(r) /\ Own(r)'
<1>j. job[r].pc = "unregister" /\ In(r).op = "delete" /\ UNCHANGED <<docs, serial, indexed>>
  BY DEF Unregister, At
<1>1. CASE Works /\ Answer(r, TRUE, TRUE)
  BY <1>j, <1>1, AnswerOwn
<1>2. CASE Fails /\ Failed(r, "done")
  BY <1>j, <1>2, FailedOwn
<1> QED
  BY <1>1, <1>2 DEF Unregister

\* What is known of r, and a step GetList of it.
LEMMA GetListOwn ==
  ASSUME CatalogueTyped, NEW r \in Requests, Own(r), GetList(r)
  PROVE  Result(r) /\ Own(r)'
<1>j. job[r] \in Jobs /\ job[r].pc = "get" /\ In(r).op = "subscribe" /\ UNCHANGED <<docs, serial, indexed>>
  BY JobOf DEF GetList, At
<1>1. CASE Works /\ Goto(r, "set")
  <2>1. "set" \in Pcs
    BY DEF Pcs
  <2>2. Result(r) /\ job'[r] = [job[r] EXCEPT !.pc = "set"]
    BY <1>1, <1>j, <2>1, GotoResult
  <2>3. job'[r].pc = "set" /\ job'[r].in = job[r].in /\ job'[r].unlisted = job[r].unlisted
        /\ job'[r].class = job[r].class
    BY <2>2, <1>j DEF Jobs
  <2>4. Program(r)' /\ ~Copying(r)'
    BY <1>j, <2>3 DEF Own, Program, In, Copying
  <2> QED
    BY <2>2, <2>3, <2>4, OtherOwn
<1>2. CASE Works /\ Answer(r, FALSE, FALSE)
  BY <1>j, <1>2, AnswerOwn
<1>3. CASE Fails /\ Failed(r, "done")
  BY <1>j, <1>3, FailedOwn
<1> QED
  BY <1>1, <1>2, <1>3 DEF GetList

\* What is known of r, and a step SetList of it.
LEMMA SetListOwn ==
  ASSUME CatalogueTyped, NEW r \in Requests, Own(r), SetList(r)
  PROVE  Result(r) /\ Own(r)'
<1>j. job[r].pc = "set" /\ In(r).op = "subscribe" /\ UNCHANGED <<docs, serial, indexed>>
  BY DEF SetList, At
<1>1. CASE Works /\ Answer(r, TRUE, TRUE)
  BY <1>j, <1>1, AnswerOwn
<1>2. CASE Fails /\ Failed(r, "done")
  BY <1>j, <1>2, FailedOwn
<1> QED
  BY <1>1, <1>2 DEF SetList

\* What is known of r, and a step Look of it.
LEMMA LookOwn ==
  ASSUME CatalogueTyped, NEW r \in Requests, Own(r), Look(r)
  PROVE  Result(r) /\ Own(r)'
<1>j. job[r] \in Jobs /\ job[r].pc = "look" /\ In(r).op \in {"get", "send"}
      /\ UNCHANGED <<docs, serial, indexed>>
  BY JobOf DEF Own, Program, Look
<1> DEFINE pc == AfterLook(r)
<1>a. pc \in {"class", "done"} /\ pc \in Pcs
  BY DEF AfterLook, Pcs
<1>1. ASSUME NEW d \in Named(In(r).kind, In(r).key), Works,
             Move(r, [job[r] EXCEPT !.pc = AfterLook(r), !.got = d], FALSE)
      PROVE  Result(r) /\ Own(r)'
  <2>d. d \in DocumentSet
    BY DEF CatalogueTyped, Named
  <2>b. Move(r, [job[r] EXCEPT !.pc = pc, !.got = d], FALSE)
    BY <1>1
  <2> HIDE DEF pc
  <2> DEFINE j == [job[r] EXCEPT !.pc = pc, !.got = d]
  <2>1. j \in Jobs /\ j.in = job[r].in /\ j.pc = pc /\ j.unlisted = job[r].unlisted
        /\ j.class = job[r].class
    BY <1>j, <2>d, <1>a DEF Jobs
  <2>2. Move(r, j, FALSE)
    BY <2>b
  <2> HIDE DEF j
  <2>3. job'[r] = j
    BY <1>1, <1>j, <2>1, <2>2, Looked
  <2>4. Program(r)'
    BY <1>j, <2>1, <2>3, <1>a DEF Own, Program, In
  <2> QED
    BY <1>1, <1>j, <2>1, <2>2, <1>a, <2>4, ReadOwn
<1>2. CASE Works /\ Goto(r, AfterLook(r))
  <2>2. Result(r) /\ job'[r] = [job[r] EXCEPT !.pc = pc]
    BY <1>2, <1>j, <1>a, GotoResult
  <2> HIDE DEF pc
  <2>3. job'[r].pc = pc /\ job'[r].in = job[r].in /\ job'[r].unlisted = job[r].unlisted
        /\ job'[r].class = job[r].class
    BY <2>2, <1>j DEF Jobs
  <2>4. Program(r)' /\ ~Copying(r)'
    BY <1>j, <2>3, <1>a DEF Own, Program, In, Copying
  <2> QED
    BY <2>2, <2>3, <2>4, <1>a, OtherOwn
<1>3. CASE Fails /\ Failed(r, AfterLook(r))
  <2>2. Result(r) /\ job'[r] = [job[r] EXCEPT !.pc = pc, !.failed = TRUE]
    BY <1>3, <1>j, <1>a, FailedResult
  <2> HIDE DEF pc
  <2>3. job'[r].pc = pc /\ job'[r].in = job[r].in /\ job'[r].unlisted = job[r].unlisted
        /\ job'[r].class = job[r].class
    BY <2>2, <1>j DEF Jobs
  <2>4. Program(r)' /\ ~Copying(r)'
    BY <1>j, <2>3, <1>a DEF Own, Program, In, Copying
  <2> QED
    BY <2>2, <2>3, <2>4, <1>a, OtherOwn
<1> QED
  BY <1>1, <1>2, <1>3 DEF Look

\* What is known of r, and a step FindClass of it.
LEMMA FindClassOwn ==
  ASSUME CatalogueTyped, NEW r \in Requests, Own(r), FindClass(r)
  PROVE  Result(r) /\ Own(r)'
<1>j. job[r] \in Jobs /\ job[r].pc = "class" /\ In(r).op = "send" /\ UNCHANGED <<docs, serial, indexed>>
  BY JobOf DEF FindClass, At
<1>1. ASSUME NEW d \in Used(r, "class"), Works,
             Move(r, [job[r] EXCEPT !.pc = "template", !.class = d], FALSE)
      PROVE  Result(r) /\ Own(r)'
  <2>d. d \in DocumentSet /\ d.kind = "class"
    BY DEF CatalogueTyped, Used
  <2> DEFINE j == [job[r] EXCEPT !.pc = "template", !.class = d]
  <2>1. j \in Jobs /\ j.in = job[r].in /\ j.pc = "template" /\ j.unlisted = job[r].unlisted
        /\ j.class = d
    BY <1>j, <2>d DEF Jobs, Pcs
  <2>2. Move(r, j, FALSE)
    BY <1>1
  <2> HIDE DEF j
  <2>3. job'[r] = j
    BY <1>1, <1>j, <2>1, <2>2, Looked
  <2>4. Program(r)'
    BY <1>j, <2>1, <2>3, <2>d DEF Own, Program, In
  <2> QED
    BY <1>1, <1>j, <2>1, <2>2, <2>4, ReadOwn
<1>2. CASE Works /\ Answer(r, FALSE, FALSE)
  BY <1>j, <1>2, AnswerOwn
<1>3. CASE Fails /\ Failed(r, "done")
  BY <1>j, <1>3, FailedOwn
<1> QED
  BY <1>1, <1>2, <1>3 DEF FindClass

\* What is known of r, and a step FindTemplate of it.
LEMMA FindTemplateOwn ==
  ASSUME CatalogueTyped, NEW r \in Requests, Own(r), FindTemplate(r)
  PROVE  Result(r) /\ Own(r)'
<1>j. job[r] \in Jobs /\ job[r].pc = "template" /\ In(r).op = "send" /\ UNCHANGED <<docs, serial, indexed>>
  BY JobOf DEF FindTemplate, At
<1>1. CASE Works /\ job[r].class.mode = "listening" /\ Goto(r, "list")
  <2>1. "list" \in Pcs
    BY DEF Pcs
  <2>2. Result(r) /\ job'[r] = [job[r] EXCEPT !.pc = "list"]
    BY <1>1, <1>j, <2>1, GotoResult
  <2>3. job'[r].pc = "list" /\ job'[r].in = job[r].in /\ job'[r].unlisted = job[r].unlisted
        /\ job'[r].class = job[r].class
    BY <2>2, <1>j DEF Jobs
  <2>4. Program(r)' /\ ~Copying(r)'
    BY <1>j, <1>1, <2>3 DEF Own, Program, In, Copying
  <2> QED
    BY <2>2, <2>3, <2>4, OtherOwn
<1>4. CASE Works /\ Answer(r, TRUE, FALSE)
  BY <1>j, <1>4, AnswerOwn
<1>2. CASE Works /\ Answer(r, FALSE, FALSE)
  BY <1>j, <1>2, AnswerOwn
<1>3. CASE Fails /\ Failed(r, "done")
  BY <1>j, <1>3, FailedOwn
<1> QED
  BY <1>1, <1>2, <1>3, <1>4 DEF FindTemplate

\* What is known of r, and a step ReadList of it.
LEMMA ReadListOwn ==
  ASSUME CatalogueTyped, NEW r \in Requests, Own(r), ReadList(r)
  PROVE  Result(r) /\ Own(r)'
<1>j. job[r] \in Jobs /\ job[r].pc = "list" /\ In(r).op = "send" /\ UNCHANGED <<docs, serial, indexed>>
  BY JobOf DEF ReadList, At
<1>1. CASE Works /\ Move(r, [job[r] EXCEPT !.pc = "done", !.unlisted = TRUE], FALSE)
  <2> DEFINE j == [job[r] EXCEPT !.pc = "done", !.unlisted = TRUE]
  <2>1. j \in Jobs /\ j.in = job[r].in /\ j.pc = "done" /\ j.unlisted = TRUE
        /\ j.class = job[r].class
    BY <1>j DEF Jobs, Pcs
  <2>2. Move(r, j, FALSE)
    BY <1>1
  <2> HIDE DEF j
  <2>3. job'[r] = j
    BY <1>1, <1>j, <2>1, <2>2, Looked
  <2>4. Program(r)'
    BY <1>j, <2>1, <2>3 DEF Own, Program, In
  <2> QED
    BY <1>1, <1>j, <2>1, <2>2, <2>4, ReadOwn
<1>2. CASE Works /\ Answer(r, TRUE, FALSE)
  BY <1>j, <1>2, AnswerOwn
<1>3. CASE Fails /\ Failed(r, "done")
  BY <1>j, <1>3, FailedOwn
<1> QED
  BY <1>1, <1>2, <1>3 DEF ReadList

\* The first step of each operation.
LEMMA FirstSteps ==
  ASSUME NEW in \in InputSet, in.op \in {"copy", "send", "subscribe", "create", "update", "delete", "get"}
  PROVE  /\ in.op = "copy" => First(in) \in {"clear", "existing"}
         /\ in.op = "send" => First(in) = "look"
         /\ in.op = "subscribe" => First(in) = "find"
         /\ in.op = "create" => First(in) = IF in.kind \in Checked THEN "check" ELSE "insert"
         /\ in.op = "update" => First(in) = IF in.kind \in Checked THEN "find" ELSE "write"
         /\ in.op = "delete" => First(in) = IF in.kind \in Checked THEN "find" ELSE "remove"
         /\ in.op = "get" => First(in) = IF in.kind \in Checked THEN "find" ELSE "look"
  BY DEF First

\* What is true of a request that has been accepted.
Begun(r) ==
  /\ job[r].pc = "idle" /\ UNCHANGED <<docs, lists, serial, faults>>
  /\ job'[r].pc \notin {"parent", "register", "unregister", "template", "list"}
  /\ job'[r].pc \in {"insert", "remove"} => In(r)'.kind \notin Checked
  /\ ~job'[r].unlisted /\ ~job'[r].failed /\ job'[r].quiet
  /\ job'[r].alone => \A q \in Requests : ~Running(q)
  /\ \A q \in Requests \ {r} : ~job'[q].alone

\* What is known of r, and a step by which it is accepted of it.
LEMMA AcceptsOwn ==
  ASSUME CatalogueTyped, NEW r \in Requests, Own(r), Handlers(r)
  PROVE  Result(r) /\ Own(r)' /\ Begun(r)
<1>1. PICK op, kind :
        /\ op \in {"create", "update", "delete", "get"} \/ (op = "subscribe" /\ kind = "class")
             \/ op \in {"copy", "send"}
        /\ Accepts(r, op, kind)
  <2>1. CASE \/ CreateConfiguration(r) \/ UpdateConfiguration(r) \/ DeleteConfiguration(r)
             \/ GetConfiguration(r) \/ AddConfiguration(r)
    BY <2>1 DEF CreateConfiguration, UpdateConfiguration, DeleteConfiguration, GetConfiguration,
       AddConfiguration
  <2>2. CASE \/ CreateTemplate(r) \/ UpdateTemplate(r) \/ DeleteTemplate(r) \/ GetTemplate(r)
             \/ CreateScene(r) \/ UpdateScene(r) \/ DeleteScene(r) \/ GetScene(r)
    BY <2>2 DEF CreateTemplate, UpdateTemplate, DeleteTemplate, GetTemplate, CreateScene,
       UpdateScene, DeleteScene, GetScene
  <2>3. CASE \/ CreateSceneRelation(r) \/ UpdateSceneRelation(r) \/ DeleteSceneRelation(r)
             \/ GetSceneRelation(r) \/ CopySceneRelation(r) \/ SendMessageByScene(r)
    BY <2>3 DEF CreateSceneRelation, UpdateSceneRelation, DeleteSceneRelation, GetSceneRelation,
       CopySceneRelation, SendMessageByScene
  <2> QED
    BY <2>1, <2>2, <2>3 DEF Handlers
<1>2. PICK in \in Inputs :
        /\ in.op = op /\ in.kind = kind
        /\ LET j == [Idle EXCEPT !.pc = First(in), !.in = in, !.quiet = TRUE,
                                 !.alone = ~ \E q \in Requests : Running(q)]
           IN  job' = [q \in Requests |-> IF q = r THEN j ELSE [job[q] EXCEPT !.alone = FALSE]]
  BY <1>1 DEF Accepts
<1>3. in \in InputSet /\ (in.op = "create" => in.key \in Keys /\ Len(in.key) = 1)
      /\ (in.op = "copy" => in.app \in AppIds)
      /\ in.op \in {"copy", "send", "subscribe", "create", "update", "delete", "get"}
      /\ (in.op = "subscribe" => in.kind = "class")
  <2>1. in \in InputSet /\ (in.op = "create" => in.key \in Keys /\ Len(in.key) = 1)
        /\ (in.op = "copy" => in.app \in AppIds)
    BY <1>2, CatalogueAssumption
  <2> QED
    BY <1>1, <1>2, <2>1
<1>u. UNCHANGED <<docs, lists, serial, faults, indexed>>
  BY <1>1 DEF Accepts
<1> DEFINE a == ~ \E q \in Requests : Running(q)
           pc == First(in)
           j == [Idle EXCEPT !.pc = pc, !.in = in, !.quiet = TRUE, !.alone = a]
<1>4. a \in BOOLEAN
  OBVIOUS
<1>5. pc \in Pcs /\ pc \notin {"idle", "done", "parent", "register", "unregister", "template", "list",
        "read", "add", "wipe", "get", "set", "class"}
  <2>1. pc \in {"clear", "existing", "look", "find", "check", "insert", "write", "remove"}
    BY <1>3, FirstSteps
  <2> QED
    BY <2>1 DEF Pcs
<1>6. job' = [q \in Requests |-> IF q = r THEN j ELSE [job[q] EXCEPT !.alone = FALSE]]
  BY <1>2
<1> HIDE DEF a, pc
<1>7. /\ j \in Jobs /\ j.pc = pc /\ j.in = in /\ j.at = 1 /\ j.have = {} /\ j.todo = {}
      /\ j.ok = FALSE /\ j.failed = FALSE /\ j.unlisted = FALSE /\ j.quiet = TRUE /\ j.alone = a
      /\ j.class = NoDoc
  <2>1. Idle \in Jobs
    BY DEF Idle, Jobs, Pcs
  <2>2. Idle.at = 1 /\ Idle.have = {} /\ Idle.todo = {} /\ Idle.ok = FALSE /\ Idle.failed = FALSE
        /\ Idle.unlisted = FALSE /\ Idle.class = NoDoc
    BY DEF Idle
  <2>3. j = [Idle EXCEPT !.pc = pc, !.in = in, !.quiet = TRUE, !.alone = a]
    OBVIOUS
  <2> QED
    BY <1>3, <1>4, <1>5, <2>1, <2>2, <2>3 DEF Jobs
<1> HIDE DEF j
<1>8. \A q \in Requests : job[q] \in Jobs
  BY JobOf
<1>9. \A q \in Requests : [job[q] EXCEPT !.alone = FALSE] \in Jobs
  BY <1>8, SetFields
<1>10. job' \in [Requests -> Jobs] /\ job'[r] = j
       /\ \A q \in Requests \ {r} : job'[q] = [job[q] EXCEPT !.alone = FALSE]
  BY <1>6, <1>7, <1>9
<1>11. ASSUME NEW q \in Requests \ {r}
       PROVE  LET o == [job[q] EXCEPT !.alone = FALSE] IN
         /\ o.pc = job[q].pc /\ o.in = job[q].in /\ o.got = job[q].got
         /\ o.class = job[q].class /\ o.at = job[q].at /\ o.have = job[q].have
         /\ o.todo = job[q].todo /\ o.ok = job[q].ok /\ o.failed = job[q].failed
         /\ o.unlisted = job[q].unlisted /\ o.quiet = job[q].quiet /\ o.alone = FALSE
  BY <1>8 DEF Jobs
<1>12. Frame(r)
  <2> SUFFICES ASSUME NEW q \in Requests \ {r}
               PROVE  /\ job'[q].pc = job[q].pc /\ job'[q].in = job[q].in /\ job'[q].got = job[q].got
                      /\ job'[q].class = job[q].class /\ job'[q].at = job[q].at
                      /\ job'[q].have = job[q].have /\ job'[q].todo = job[q].todo
                      /\ job'[q].ok = job[q].ok /\ job'[q].failed = job[q].failed
                      /\ job'[q].unlisted = job[q].unlisted
                      /\ job'[q].quiet => job[q].quiet
                      /\ job'[q].alone => job[q].alone
    BY Zenon DEF Frame
  <2>1. job'[q] = [job[q] EXCEPT !.alone = FALSE]
    BY <1>10
  <2> QED
    BY <2>1, <1>11
<1>13. CatalogueTyped'
  BY <1>10, <1>u DEF CatalogueTyped
<1>14. Result(r)
  BY <1>12, <1>13, <1>u DEF Result, Undisturbed
<1>15. Program(r)'
  BY <1>3, <1>5, <1>7, <1>10, FirstSteps DEF Program, In, pc, Checked
<1>16. CheckedFree(r)'
  BY <1>3, <1>5, <1>7, <1>10, FirstSteps DEF CheckedFree, In, pc
<1>17. Copying(r)' => job'[r].pc \in {"clear", "existing"}
  BY <1>3, <1>7, <1>10, FirstSteps DEF Copying, In, pc
<1>18. Collected(r)' = {}
  BY <1>7, <1>10 DEF Collected
<1>19. Gathered(r)' /\ Ahead(r)' /\ Behind(r)'
  BY <1>7, <1>10, <1>17, <1>18, FS_EmptySet DEF Gathered, Ahead, Behind, Held
<1>20. pc \in {"insert", "remove"} => in.kind \notin Checked
  BY <1>3, <1>5, FirstSteps DEF pc
<1>21. job'[r].alone => \A q \in Requests : ~Running(q)
  BY <1>7, <1>10 DEF a
<1>22. \A q \in Requests \ {r} : ~job'[q].alone
  BY <1>10, <1>11
<1>23. job[r].pc = "idle"
  BY <1>1 DEF Accepts
<1>24. Begun(r)
  BY <1>u, <1>5, <1>7, <1>10, <1>20, <1>21, <1>22, <1>23 DEF Begun, In
<1> QED
  BY <1>14, <1>15, <1>16, <1>19, <1>24 DEF Own

\* The three collections that a copy goes through.
LEMMA CollectionFacts ==
  /\ \A i \in 1 .. 3 : Collection(i) \in Collections
  /\ \A i, k \in 1 .. 3 : Collection(i) = Collection(k) => i = k
<1>1. Collection(1) = "class" /\ Collection(2) = "template" /\ Collection(3) = "relation"
  BY DEF Collection
<1>2. \A i \in 1 .. 3 : i = 1 \/ i = 2 \/ i = 3
  OBVIOUS
<1> QED
  BY <1>1, <1>2 DEF Collections

\* The documents that were found before one, in a set of documents with ids of
\* their own.
LEMMA Ranks ==
  ASSUME NEW ds \in SUBSET DocumentSet, IsFiniteSet(ds), \A d, e \in ds : d.id = e.id => d = e
  PROVE  /\ Cardinality(ds) \in Nat
         /\ \A d \in ds : /\ Cardinality({e \in ds : e.id < d.id}) \in Nat
                          /\ Cardinality({e \in ds : e.id < d.id}) < Cardinality(ds)
         /\ \A d, c \in ds :
              Cardinality({e \in ds : e.id < d.id}) = Cardinality({e \in ds : e.id < c.id}) => d = c
<1> DEFINE B(d) == {e \in ds : e.id < d.id}
<1>0. \A d \in ds : d.id \in Nat
  BY DEF DocumentSet
<1>1. Cardinality(ds) \in Nat
  BY FS_CardinalityType
<1>2. ASSUME NEW d \in ds
      PROVE  IsFiniteSet(B(d)) /\ Cardinality(B(d)) \in Nat /\ Cardinality(B(d)) < Cardinality(ds)
  <2> DEFINE b == B(d)
  <2>1. b \in SUBSET ds /\ b # ds
    BY <1>0
  <2> HIDE DEF b
  <2>2. IsFiniteSet(b) /\ Cardinality(b) <= Cardinality(ds) /\ Cardinality(b) # Cardinality(ds)
    BY <2>1, FS_Subset
  <2>3. Cardinality(b) \in Nat
    BY <2>2, FS_CardinalityType
  <2>4. Cardinality(b) < Cardinality(ds)
    BY <1>1, <2>2, <2>3
  <2> QED
    BY <2>2, <2>3, <2>4 DEF b
<1>3. ASSUME NEW d \in ds, NEW c \in ds, d.id < c.id
      PROVE  Cardinality(B(d)) # Cardinality(B(c))
  <2> DEFINE b == B(d)
             f == B(c)
  <2>1. b \in SUBSET f /\ b # f
    BY <1>0, <1>3
  <2>2. IsFiniteSet(f)
    BY <1>2
  <2> HIDE DEF b, f
  <2>3. Cardinality(b) # Cardinality(f)
    BY <2>1, <2>2, FS_Subset
  <2> QED
    BY <2>3 DEF b, f
<1>4. \A d, c \in ds : d.id < c.id \/ c.id < d.id \/ d = c
  BY <1>0
<1> QED
  BY <1>1, <1>2, <1>3, <1>4

\* One document of a copy.
LEMMA CopyTypes ==
  ASSUME CatalogueTyped, NEW r \in Requests, Own(r), Copying(r), NEW d \in job[r].todo, NEW n \in Nat
  PROVE  /\ Copied(r, d, n) \in DocumentSet
         /\ Copied(r, d, n).id = n /\ Copied(r, d, n).kind = d.kind
         /\ Copied(r, d, n).key = CopyKey(d, In(r).app) /\ Copied(r, d, n).app = In(r).app
         /\ Copied(r, d, n).by = "copy" /\ Copied(r, d, n).uses = CopyUses(d, In(r).app)
<1>1. job[r] \in Jobs /\ In(r) \in InputSet /\ In(r).app \in AppIds
  BY JobOf DEF Own, Program, Copying
<1>2. d \in DocumentSet /\ (job[r].quiet /\ ~job[r].failed) \in BOOLEAN
  BY <1>1 DEF Jobs
<1>3. \A k \in Keys : Append(k, In(r).app) \in Keys
  BY <1>1 DEF Keys
<1> DEFINE key == CopyKey(d, In(r).app)
           uses == CopyUses(d, In(r).app)
           q == job[r].quiet /\ ~job[r].failed
           D == Document(n, d.kind, key, In(r).app, d.mode)
<1>4. key \in Keys
  BY <1>2, <1>3 DEF CopyKey, DocumentSet
<1>5. uses \in Uses
  <2>1. d.uses \in Uses
    BY <1>2 DEF DocumentSet
  <2>2. ASSUME NEW u \in d.uses
        PROVE  <<u[1], Append(u[2], In(r).app)>> \in {"class", "template"} \X Keys
    <3>1. u \in {"class", "template"} \X Keys
      BY <2>1 DEF Uses
    <3> QED
      BY <3>1, <1>3
  <2> QED
    BY <2>2 DEF CopyUses, Uses
<1> HIDE DEF key, uses
<1>6. /\ D \in DocumentSet /\ D.id = n /\ D.kind = d.kind /\ D.key = key /\ D.app = In(r).app
      /\ D.edited = FALSE
  BY <1>1, <1>2, <1>4 DEF DocumentSet, Document, Uses
<1>7. Copied(r, d, n) = [D EXCEPT !.by = "copy", !.uses = uses, !.quiet = q]
  BY DEF Copied, uses, key
<1>8. q \in BOOLEAN
  BY <1>2
<1> HIDE DEF D, q
<1>9. /\ Copied(r, d, n) \in DocumentSet
      /\ Copied(r, d, n).id = n /\ Copied(r, d, n).kind = d.kind
      /\ Copied(r, d, n).key = key /\ Copied(r, d, n).app = In(r).app
      /\ Copied(r, d, n).by = "copy" /\ Copied(r, d, n).uses = uses
  BY <1>5, <1>6, <1>7, <1>8 DEF DocumentSet
<1> QED
  BY <1>9 DEF key, uses

\* It counts as undisturbed only if the request was.
LEMMA CopyQuiet ==
  ASSUME NEW r, NEW d, NEW n
  PROVE  Copied(r, d, n).quiet => job[r].quiet /\ ~job[r].failed
  BY DEF Copied, Document

\* A batch gives each document one copy, with a serial number of its own.
LEMMA FreshFacts ==
  ASSUME CatalogueTyped, NEW r \in Requests, Own(r), Copying(r), NEW k, NEW ds \in SUBSET job[r].todo,
         \A d \in ds : d.kind = k
  PROVE  /\ Fresh(r, ds) \subseteq DocumentSet /\ IsFiniteSet(Fresh(r, ds))
         /\ Cardinality(Fresh(r, ds)) \in Nat
         /\ \A c \in Fresh(r, ds) : \E d \in ds :
              /\ c.kind = k /\ c.key = CopyKey(d, In(r).app) /\ c.app = In(r).app /\ c.by = "copy"
         /\ \A d \in ds : \E c \in Fresh(r, ds) :
              /\ c.kind = k /\ c.key = CopyKey(d, In(r).app) /\ c.app = In(r).app
              /\ c.uses = CopyUses(d, In(r).app)
         /\ \A c \in Fresh(r, ds) :
              serial <= c.id /\ c.id <= serial + Cardinality(Fresh(r, ds)) - 1
         /\ \A c, e \in Fresh(r, ds) : c.id = e.id => c = e
<1>1. job[r] \in Jobs /\ serial \in Nat
  BY JobOf DEF CatalogueTyped
<1>2. IsFiniteSet(job[r].todo) /\ \A d, e \in job[r].todo : d.kind = e.kind /\ d.id = e.id => d = e
  BY DEF Own, Gathered
<1>3. ds \in SUBSET DocumentSet /\ IsFiniteSet(ds) /\ \A d, e \in ds : d.id = e.id => d = e
  <2>1. ds \in SUBSET DocumentSet
    BY <1>1 DEF Jobs
  <2>2. IsFiniteSet(ds)
    BY <1>2, FS_Subset
  <2> QED
    BY <1>2, <2>1, <2>2
<1> DEFINE rank(d) == Cardinality({e \in ds : e.id < d.id})
           C(d) == Copied(r, d, serial + rank(d))
           new == Fresh(r, ds)
<1>4. Cardinality(ds) \in Nat /\ (\A d \in ds : rank(d) \in Nat /\ rank(d) < Cardinality(ds))
      /\ \A d, c \in ds : rank(d) = rank(c) => d = c
  BY <1>3, Ranks, Zenon
<1>5. new = {C(d) : d \in ds}
  BY DEF Fresh
<1> HIDE DEF rank
<1>6. \A d \in ds : serial + rank(d) \in Nat
  BY <1>1, <1>4
<1>7. ASSUME NEW d \in ds
      PROVE  /\ C(d) \in DocumentSet /\ C(d).id = serial + rank(d) /\ C(d).kind = k
             /\ C(d).key = CopyKey(d, In(r).app) /\ C(d).app = In(r).app
             /\ C(d).by = "copy" /\ C(d).uses = CopyUses(d, In(r).app)
  <2>1. d \in job[r].todo /\ serial + rank(d) \in Nat /\ d.kind = k
    BY <1>6
  <2> HIDE DEF C
  <2>2. ASSUME NEW n \in Nat
        PROVE  /\ Copied(r, d, n) \in DocumentSet
               /\ Copied(r, d, n).id = n /\ Copied(r, d, n).kind = d.kind
               /\ Copied(r, d, n).key = CopyKey(d, In(r).app) /\ Copied(r, d, n).app = In(r).app
               /\ Copied(r, d, n).by = "copy" /\ Copied(r, d, n).uses = CopyUses(d, In(r).app)
    BY <2>1, CopyTypes
  <2>3. C(d) = Copied(r, d, serial + rank(d))
    BY DEF C
  <2> QED
    BY <2>1, <2>2, <2>3
<1> HIDE DEF C, new
<1>8. \A d, c \in ds : C(d).id = C(c).id => d = c
  <2>1. SUFFICES ASSUME NEW d \in ds, NEW c \in ds, C(d).id = C(c).id PROVE d = c
    OBVIOUS
  <2>2. serial + rank(d) = serial + rank(c)
    BY <2>1, <1>7
  <2>3. rank(d) = rank(c)
    BY <2>2, <1>1, <1>4
  <2> QED
    BY <2>3, <1>4
<1>9. IsFiniteSet(new) /\ Cardinality(new) = Cardinality(ds)
  <2> DEFINE f == [d \in ds |-> C(d)]
  <2>1. f \in Bijection(ds, new)
    BY <1>5, <1>8 DEF Bijection, Injection, Surjection, IsInjective
  <2>2. ExistsBijection(ds, new)
    BY <2>1 DEF ExistsBijection
  <2> QED
    BY <2>2, <1>3, FS_Bijection
<1>10. \A c \in new : serial <= c.id /\ c.id <= serial + Cardinality(new) - 1
  <2>1. SUFFICES ASSUME NEW d \in ds
                 PROVE  serial <= C(d).id /\ C(d).id <= serial + Cardinality(new) - 1
    BY <1>5
  <2>2. C(d).id = serial + rank(d) /\ rank(d) \in Nat /\ rank(d) < Cardinality(new)
        /\ Cardinality(new) \in Nat
    BY <1>4, <1>7, <1>9
  <2> QED
    BY <2>2, <1>1
<1>11. \A c, e \in new : c.id = e.id => c = e
  BY <1>5, <1>8
<1>12. new \subseteq DocumentSet /\ Cardinality(new) \in Nat
  BY <1>4, <1>5, <1>7, <1>9
<1>13. \A c \in new : \E d \in ds :
         /\ c.kind = k /\ c.key = CopyKey(d, In(r).app) /\ c.app = In(r).app /\ c.by = "copy"
  BY <1>5, <1>7
<1>14. \A d \in ds : \E c \in new :
         /\ c.kind = k /\ c.key = CopyKey(d, In(r).app) /\ c.app = In(r).app
         /\ c.uses = CopyUses(d, In(r).app)
  BY <1>5, <1>7
<1> QED
  BY <1>9, <1>10, <1>11, <1>12, <1>13, <1>14 DEF new

\* The same of the documents that one InsertMany writes.
LEMMA FreshQuiet ==
  ASSUME NEW r, NEW ds, NEW c \in Fresh(r, ds)
  PROVE  c.quiet => job[r].quiet /\ ~job[r].failed
  BY CopyQuiet DEF Fresh

\* Each document that is to be copied has its copy among them.
LEMMA FreshOfEach ==
  ASSUME CatalogueTyped, NEW r \in Requests, Own(r), Copying(r), NEW k, NEW ds \in SUBSET job[r].todo,
         \A d \in ds : d.kind = k
  PROVE  \A d \in ds : \E c \in Fresh(r, ds) :
           /\ c.kind = k /\ c.key = CopyKey(d, In(r).app) /\ c.app = In(r).app
           /\ c.uses = CopyUses(d, In(r).app)
  BY FreshFacts, ZenonT(60)

\* The loop over the collections changes two fields.
LEMMA NextAtFields ==
  ASSUME CatalogueTyped, NEW r \in Requests, NEW pc, NEW next \in Pcs, NEW j, j = NextAt(r, pc, next)
  PROVE  /\ j \in Jobs
         /\ j.in = job[r].in /\ j.have = job[r].have /\ j.todo = job[r].todo
         /\ j.class = job[r].class
         /\ j.ok = job[r].ok /\ j.quiet = job[r].quiet /\ j.failed = job[r].failed
         /\ j.unlisted = job[r].unlisted
         /\ job[r].at \in 1 .. 3
         /\ job[r].at < 3 => j.at = job[r].at + 1 /\ j.pc = job[r].pc
         /\ job[r].at = 3 => j.at = 1 /\ j.pc = next
<1>1. job[r] \in Jobs
  BY JobOf
<1>2. job[r].at \in 1 .. 3
  BY <1>1 DEF Jobs
<1>3. CASE job[r].at < 3
  <2>1. j = [job[r] EXCEPT !.at = job[r].at + 1] /\ job[r].at + 1 \in 1 .. 3
    BY <1>2, <1>3 DEF NextAt
  <2> QED
    BY <1>1, <1>2, <1>3, <2>1 DEF Jobs
<1>4. CASE job[r].at = 3
  <2>1. j = [job[r] EXCEPT !.at = 1, !.pc = next]
    BY <1>4 DEF NextAt
  <2>2. 1 \in 1 .. 3 /\ ~(job[r].at < 3)
    BY <1>4
  <2>3. j \in Jobs
    BY <1>1, <2>1, <2>2 DEF Jobs
  <2> QED
    BY <1>1, <1>2, <1>4, <2>1, <2>2, <2>3 DEF Jobs
<1> QED
  BY <1>2, <1>3, <1>4

\* One collection more.
LEMMA CollectedNext ==
  ASSUME CatalogueTyped, NEW r \in Requests
  PROVE  /\ Collection(job[r].at) \in Collections
         /\ Collection(job[r].at) \notin Collected(r)
         /\ job'[r].at = job[r].at + 1 => Collected(r)' = Collected(r) \cup {Collection(job[r].at)}
         /\ job'[r].at = 1 => Collected(r)' = {}
         /\ job[r].at = 3 => \A i \in 1 .. 3 : Collection(i) \in Collected(r) \cup {Collection(job[r].at)}
<1>1. job[r].at \in 1 .. 3
  BY JobOf DEF Jobs
<1>2. Collection(job[r].at) \in Collections /\ Collection(job[r].at) \notin Collected(r)
  BY <1>1, CollectionFacts DEF Collected
<1>3. ASSUME job'[r].at = job[r].at + 1
      PROVE  Collected(r)' = Collected(r) \cup {Collection(job[r].at)}
  <2>1. Collected(r)' = {Collection(i) : i \in 1 .. job[r].at}
    BY <1>1, <1>3 DEF Collected
  <2>2. 1 .. job[r].at = (1 .. (job[r].at - 1)) \cup {job[r].at}
    BY <1>1
  <2> QED
    BY <2>1, <2>2 DEF Collected
<1>4. job'[r].at = 1 => Collected(r)' = {}
  BY DEF Collected
<1>5. ASSUME job[r].at = 3, NEW i \in 1 .. 3
      PROVE  Collection(i) \in Collected(r) \cup {Collection(job[r].at)}
  <2>1. i = 3 \/ i \in 1 .. (job[r].at - 1)
    BY <1>5
  <2> QED
    BY <1>5, <2>1 DEF Collected
<1> QED
  BY <1>2, <1>3, <1>4, <1>5

Numbered ==
  /\ IsFiniteSet(docs) /\ serial >= 1
  /\ \A d \in docs : d.id \in 1 .. (serial - 1)
  /\ \A d, e \in docs : d.id = e.id => d = e

\* Parts that a step of a copy leaves alone.
CopyStays(r) ==
  /\ job'[r].in = job[r].in /\ job'[r].class = job[r].class /\ job'[r].unlisted = job[r].unlisted
  /\ job'[r].quiet => job[r].quiet
  /\ job[r].failed => job'[r].failed

\* A copy goes on with the program of a copy.
LEMMA CopyProgram ==
  ASSUME NEW r \in Requests, Own(r), Copying(r), job[r].pc # "done", CopyStays(r),
         job'[r].pc \in {"clear", "existing", "read", "add", "wipe", "done"}
  PROVE  /\ Program(r)' /\ CheckedFree(r)' /\ Copying(r)'
         /\ ~job[r].ok
         /\ job[r].in = job'[r].in
<1>1. ~job[r].unlisted /\ In(r) \in InputSet /\ In(r).app \in AppIds /\ In(r).op = "copy" /\ ~job[r].ok
  BY DEF Own, Program, Copying, Gathered
<1>2. Program(r)'
  BY <1>1 DEF Program, CopyStays, In
<1> QED
  BY <1>1, <1>2 DEF CheckedFree, Copying, CopyStays, In

\* A copy that fails.
LEMMA CopyEnds ==
  ASSUME NEW r \in Requests, Own(r), Copying(r), job[r].pc # "done", CopyStays(r),
         job'[r].pc \in {"wipe", "done"}, job'[r].have = job[r].have, job'[r].todo = job[r].todo,
         job'[r].ok = job[r].ok
  PROVE  Own(r)'
<1>1. Program(r)' /\ CheckedFree(r)' /\ Copying(r)' /\ ~job[r].ok /\ job[r].in = job'[r].in
  BY CopyProgram
<1>2. Gathered(r)'
  BY <1>1 DEF Own, Gathered, Skipped, In
<1>3. Ahead(r)' /\ Behind(r)'
  BY <1>1 DEF Ahead, Behind
<1> QED
  BY <1>1, <1>2, <1>3 DEF Own

\* A copy that a failed call ends.
LEMMA CopyFailed ==
  ASSUME CatalogueTyped, NEW r \in Requests, Own(r), Copying(r), job[r].pc # "done",
         Failed(r, "done"), Fails, UNCHANGED <<docs, serial, indexed>>
  PROVE  Result(r) /\ Own(r)'
<1>1. "done" \in Pcs
  BY DEF Pcs
<1>2. Result(r) /\ job'[r] = [job[r] EXCEPT !.pc = "done", !.failed = TRUE]
  BY <1>1, FailedResult
<1>3. /\ CopyStays(r) /\ job'[r].pc = "done" /\ job'[r].have = job[r].have
      /\ job'[r].todo = job[r].todo /\ job'[r].ok = job[r].ok
  BY <1>2, JobOf DEF Jobs, CopyStays
<1> QED
  BY <1>2, <1>3, CopyEnds

\* What is known of r, and a step CopyClear of it.
LEMMA CopyClearOwn ==
  ASSUME CatalogueTyped, NEW r \in Requests, Own(r), CopyClear(r)
  PROVE  Result(r) /\ Own(r)'
<1> DEFINE j == NextAt(r, "clear", "read")
           k == Collection(job[r].at)
<1>j. job[r].pc = "clear" /\ Copying(r) /\ UNCHANGED <<serial, indexed>> /\ "read" \in Pcs
      /\ serial \in Nat /\ docs \subseteq DocumentSet
  BY DEF CopyClear, At, Copying, Pcs, CatalogueTyped
<1>1. /\ j \in Jobs
      /\ j.in = job[r].in /\ j.have = job[r].have /\ j.todo = job[r].todo /\ j.class = job[r].class
      /\ j.ok = job[r].ok /\ j.quiet = job[r].quiet /\ j.failed = job[r].failed
      /\ j.unlisted = job[r].unlisted
      /\ job[r].at \in 1 .. 3
      /\ job[r].at < 3 => j.at = job[r].at + 1 /\ j.pc = job[r].pc
      /\ job[r].at = 3 => j.at = 1 /\ j.pc = "read"
  BY <1>j, NextAtFields
<1>2. \/ Works /\ docs' = docs \ Of(k, In(r).app) /\ Move(r, j, TRUE)
      \/ Fails /\ UNCHANGED docs /\ Move(r, [j EXCEPT !.failed = TRUE], FALSE)
  BY DEF CopyClear
<1> HIDE DEF j
<1>3. PICK f \in {job[r].failed, TRUE} :
        /\ Result(r) /\ job'[r] = [j EXCEPT !.failed = f]
        /\ docs' \subseteq docs
        /\ f \/ docs' = docs \ Of(k, In(r).app)
  <2>1. CASE Works /\ docs' = docs \ Of(k, In(r).app) /\ Move(r, j, TRUE)
    <3>1. docs' \subseteq DocumentSet /\ serial' \in Nat /\ docs' \subseteq docs
      BY <1>j, <2>1
    <3>2. Result(r) /\ job'[r] = j
      BY <1>j, <1>1, <2>1, <3>1, Stepped
    <3>3. j = [j EXCEPT !.failed = job[r].failed]
      BY <1>1 DEF Jobs
    <3> QED
      BY <2>1, <3>1, <3>2, <3>3
  <2>2. CASE Fails /\ UNCHANGED docs /\ Move(r, [j EXCEPT !.failed = TRUE], FALSE)
    <3>1. [j EXCEPT !.failed = TRUE] \in Jobs
      BY <1>1 DEF Jobs
    <3>2. Result(r) /\ job'[r] = [j EXCEPT !.failed = TRUE]
      BY <1>j, <2>2, <3>1, Looked
    <3> QED
      BY <2>2, <3>2
  <2> QED
    BY <1>2, <2>1, <2>2
<1>4. /\ job'[r].in = job[r].in /\ job'[r].have = job[r].have /\ job'[r].todo = job[r].todo
      /\ job'[r].ok = job[r].ok /\ job'[r].quiet = job[r].quiet
      /\ job'[r].failed = f
      /\ job'[r].at = j.at /\ job'[r].pc = j.pc
      /\ CopyStays(r)
  BY <1>1, <1>3, JobOf DEF Jobs, CopyStays
<1>5. job'[r].pc \in {"clear", "read"}
  BY <1>j, <1>1, <1>4
<1>6. Program(r)' /\ CheckedFree(r)' /\ Copying(r)' /\ ~job[r].ok
  BY <1>j, <1>4, <1>5, CopyProgram
<1>7. job[r].todo = {} /\ job[r].have = {}
  BY <1>j DEF Own, Gathered
<1>8. Gathered(r)'
  BY <1>4, <1>5, <1>6, <1>7, FS_EmptySet DEF Gathered
<1>9. Ahead(r)'
  <2>1. SUFFICES ASSUME job[r].quiet, ~f
                 PROVE  /\ job'[r].pc = "clear" => \A c \in Collected(r)' : Noted(r, c)'
                        /\ job'[r].pc = "read" => \A i \in 1 .. 3 : Noted(r, Collection(i))'
    BY <1>4, <1>5 DEF Ahead
  <2>2. \A c \in Collected(r) : Noted(r, c)
    BY <1>j, <2>1, <1>3 DEF Own, Ahead
  <2>3. ASSUME NEW c \in Collected(r) \cup {k}
        PROVE  Noted(r, c)'
    <3>1. docs' = docs \ Of(k, In(r).app)
      BY <1>3, <2>1
    <3>2. c = k => Of(c, In(r).app)' = {}
      BY <3>1, <1>4 DEF Of, In
    <3>3. Of(c, In(r).app)' \subseteq Of(c, In(r).app)
      BY <3>1, <1>4 DEF Of, In
    <3> QED
      BY <2>2, <3>2, <3>3, <1>4 DEF Noted, In
  <2>4. CASE job[r].at < 3
    BY <2>3, <2>4, <1>j, <1>1, <1>4, CollectedNext
  <2>5. CASE job[r].at = 3
    BY <2>3, <2>5, <1>1, <1>4, CollectedNext
  <2> QED
    BY <1>1, <2>4, <2>5
<1>10. Behind(r)'
  <2>1. Held(r)'
    BY <1>4, <1>7 DEF Held
  <2>2. job'[r].pc = "read" => Collected(r)' = {}
    BY <1>j, <1>1, <1>4, CollectedNext
  <2> QED
    BY <1>4, <1>5, <1>6, <2>1, <2>2 DEF Behind
<1> QED
  BY <1>3, <1>6, <1>8, <1>9, <1>10 DEF Own

\* What is known of r, and a step CopyExisting of it.
LEMMA CopyExistingOwn ==
  ASSUME CatalogueTyped, NEW r \in Requests, Own(r), CopyExisting(r)
  PROVE  Result(r) /\ Own(r)'
<1> DEFINE k == Collection(job[r].at)
           n == NextAt(r, "existing", "read")
           have == job[r].have \cup {<<k, d.key>> : d \in Of(k, In(r).app)}
           j == [n EXCEPT !.have = have]
<1>j. job[r].pc = "existing" /\ Copying(r) /\ UNCHANGED <<docs, serial, indexed>> /\ "read" \in Pcs
      /\ docs \subseteq DocumentSet
  BY DEF CopyExisting, At, Copying, Pcs, CatalogueTyped
<1>1. /\ n \in Jobs
      /\ n.in = job[r].in /\ n.have = job[r].have /\ n.todo = job[r].todo /\ n.class = job[r].class
      /\ n.ok = job[r].ok /\ n.quiet = job[r].quiet /\ n.failed = job[r].failed
      /\ n.unlisted = job[r].unlisted
      /\ job[r].at \in 1 .. 3
      /\ job[r].at < 3 => n.at = job[r].at + 1 /\ n.pc = job[r].pc
      /\ job[r].at = 3 => n.at = 1 /\ n.pc = "read"
  BY <1>j, NextAtFields
<1>2. have \in SUBSET (Collections \X Keys)
  <2>1. job[r].have \in SUBSET (Collections \X Keys)
    BY JobOf DEF Jobs
  <2>2. k \in Collections
    BY CollectedNext
  <2>3. \A d \in Of(k, In(r).app) : d.key \in Keys
    BY <1>j DEF Of, DocumentSet
  <2> QED
    BY <2>1, <2>2, <2>3
<1>3. CASE Fails /\ Failed(r, "done")
  BY <1>j, <1>3, CopyFailed
<1>4. CASE Works /\ Move(r, [n EXCEPT !.have = @ \cup {<<k, d.key>> : d \in Of(k, In(r).app)}], FALSE)
  <2>1. Move(r, j, FALSE)
    <3>1. j = [n EXCEPT !.have = @ \cup {<<k, d.key>> : d \in Of(k, In(r).app)}]
      BY <1>1
    <3> QED
      BY <3>1, <1>4
  <2>h. have = job[r].have \cup {<<k, d.key>> : d \in Of(k, In(r).app)}
    OBVIOUS
  <2> HIDE DEF n, have
  <2>2. /\ j \in Jobs
        /\ j.in = job[r].in /\ j.have = have /\ j.todo = job[r].todo /\ j.class = job[r].class
        /\ j.ok = job[r].ok /\ j.quiet = job[r].quiet /\ j.failed = job[r].failed
        /\ j.unlisted = job[r].unlisted /\ j.at = n.at /\ j.pc = n.pc
    BY <1>1, <1>2 DEF Jobs
  <2> HIDE DEF j
  <2>3. Result(r) /\ job'[r] = j
    BY <1>j, <1>4, <2>1, <2>2, Looked
  <2>4. CopyStays(r) /\ job'[r].pc \in {"existing", "read"}
    BY <1>j, <1>1, <2>2, <2>3 DEF CopyStays
  <2>5. Program(r)' /\ CheckedFree(r)' /\ Copying(r)' /\ ~job[r].ok
    BY <1>j, <2>4, CopyProgram
  <2>6. job[r].todo = {}
    BY <1>j DEF Own, Gathered
  <2>7. Gathered(r)'
    BY <2>2, <2>3, <2>4, <2>5, <2>6, FS_EmptySet DEF Gathered
  <2>8. Ahead(r)'
    <3>1. SUFFICES ASSUME job[r].quiet, ~job[r].failed
                   PROVE  /\ job'[r].pc = "existing" => \A c \in Collected(r)' : Noted(r, c)'
                          /\ job'[r].pc = "read" => \A i \in 1 .. 3 : Noted(r, Collection(i))'
      BY <2>2, <2>3, <2>4 DEF Ahead
    <3>2. \A c \in Collected(r) : Noted(r, c)
      BY <1>j, <3>1 DEF Own, Ahead
    <3>3. ASSUME NEW c \in Collected(r) \cup {k}
          PROVE  Noted(r, c)'
      <4>1. Of(c, In(r).app)' = Of(c, In(r).app)
        BY <1>j, <2>2, <2>3 DEF Of, In
      <4> QED
        BY <3>2, <4>1, <2>h, <2>2, <2>3 DEF Noted, In
    <3>4. CASE job[r].at < 3
      BY <3>3, <3>4, <1>j, <1>1, <2>2, <2>3, CollectedNext
    <3>5. CASE job[r].at = 3
      BY <3>3, <3>5, <1>1, <2>2, <2>3, CollectedNext
    <3> QED
      BY <1>1, <3>4, <3>5
  <2>9. Behind(r)'
    <3>1. SUFFICES ASSUME job[r].quiet, In(r).from # In(r).app
                   PROVE  Held(r)' /\ (job'[r].pc = "read" => \A c \in Collected(r)' : Taken(r, c)')
      BY <2>2, <2>3, <2>4, <2>5 DEF Behind, In
    <3>2. Held(r)
      BY <1>j, <3>1 DEF Own, Behind
    <3>3. \A h \in have : \E e \in Of(h[1], In(r).app) : e.key = h[2]
      BY <3>2, <2>h DEF Held
    <3>4. Held(r)'
      BY <3>3, <1>j, <2>2, <2>3 DEF Held, Of, In
    <3>5. job'[r].pc = "read" => Collected(r)' = {}
      BY <1>j, <1>1, <2>2, <2>3, CollectedNext
    <3> QED
      BY <3>4, <3>5
  <2> QED
    BY <2>3, <2>5, <2>7, <2>8, <2>9 DEF Own
<1> QED
  BY <1>3, <1>4 DEF CopyExisting

\* What is known of r, and a step CopyRead of it.
LEMMA CopyReadOwn ==
  ASSUME CatalogueTyped, Numbered, NEW r \in Requests, Own(r), CopyRead(r)
  PROVE  Result(r) /\ Own(r)'
<1> DEFINE k == Collection(job[r].at)
           n == NextAt(r, "read", "add")
           more == {d \in Of(k, In(r).from) : ~Skipped(r, k, d)}
           todo == job[r].todo \cup more
           j == [n EXCEPT !.todo = todo]
<1>j. job[r].pc = "read" /\ Copying(r) /\ UNCHANGED <<docs, serial, indexed>> /\ "add" \in Pcs
      /\ docs \subseteq DocumentSet
  BY DEF CopyRead, At, Copying, Pcs, CatalogueTyped
<1>1. /\ n \in Jobs
      /\ n.in = job[r].in /\ n.have = job[r].have /\ n.todo = job[r].todo /\ n.class = job[r].class
      /\ n.ok = job[r].ok /\ n.quiet = job[r].quiet /\ n.failed = job[r].failed
      /\ n.unlisted = job[r].unlisted
      /\ job[r].at \in 1 .. 3
      /\ job[r].at < 3 => n.at = job[r].at + 1 /\ n.pc = job[r].pc
      /\ job[r].at = 3 => n.at = 1 /\ n.pc = "add"
  BY <1>j, NextAtFields
<1>2. CASE Fails /\ Failed(r, "done")
  BY <1>j, <1>2, CopyFailed
<1>3. CASE Works /\ Move(r, [n EXCEPT !.todo = @ \cup {d \in Of(k, In(r).from) : ~Skipped(r, k, d)}], FALSE)
  <2>1. Move(r, j, FALSE)
    <3>1. j = [n EXCEPT !.todo = @ \cup {d \in Of(k, In(r).from) : ~Skipped(r, k, d)}]
      BY <1>1
    <3> QED
      BY <3>1, <1>3
  <2>g. /\ IsFiniteSet(job[r].todo)
        /\ \A d, e \in job[r].todo : d.kind = e.kind /\ d.id = e.id => d = e
        /\ \A d \in job[r].todo : d.kind \in Collected(r)
        /\ \A d \in job[r].todo : ~Skipped(r, d.kind, d)
    BY <1>j DEF Own, Gathered
  <2>k. k \in Collections /\ k \notin Collected(r)
    BY CollectedNext
  <2>m. more \subseteq docs /\ \A d \in more : d.kind = k /\ ~Skipped(r, d.kind, d)
    BY DEF Of
  <2>t. /\ todo \in SUBSET DocumentSet /\ IsFiniteSet(todo)
        /\ \A d, e \in todo : d.kind = e.kind /\ d.id = e.id => d = e
        /\ \A d \in todo : d.kind \in Collected(r) \cup {k}
        /\ \A d \in todo : ~Skipped(r, d.kind, d)
        /\ \A d \in Of(k, In(r).from) : Skipped(r, k, d) \/ d \in todo
        /\ job[r].todo \subseteq todo
    <3>1. IsFiniteSet(more)
      BY <2>m, FS_Subset DEF Numbered
    <3>2. IsFiniteSet(todo)
      BY <3>1, <2>g, FS_Union
    <3>3. job[r].todo \in SUBSET DocumentSet
      BY JobOf DEF Jobs
    <3>4. \A d, e \in more : d.id = e.id => d = e
      BY <2>m DEF Numbered
    <3>5. \A d, e \in todo : d.kind = e.kind /\ d.id = e.id => d = e
      BY <2>g, <2>k, <2>m, <3>4
    <3>6. todo \in SUBSET DocumentSet
      BY <3>3, <2>m, <1>j
    <3> QED
      BY <2>g, <2>m, <3>2, <3>5, <3>6
  <2> HIDE DEF n, more, todo
  <2>2. /\ j \in Jobs
        /\ j.in = job[r].in /\ j.have = job[r].have /\ j.todo = todo /\ j.class = job[r].class
        /\ j.ok = job[r].ok /\ j.quiet = job[r].quiet /\ j.failed = job[r].failed
        /\ j.unlisted = job[r].unlisted /\ j.at = n.at /\ j.pc = n.pc
    BY <1>1, <2>t DEF Jobs
  <2> HIDE DEF j
  <2>3. Result(r) /\ job'[r] = j
    BY <1>j, <1>3, <2>1, <2>2, Looked
  <2>4. CopyStays(r) /\ job'[r].pc \in {"read", "add"}
    BY <1>j, <1>1, <2>2, <2>3 DEF CopyStays
  <2>5. Program(r)' /\ CheckedFree(r)' /\ Copying(r)' /\ ~job[r].ok
    BY <1>j, <2>4, CopyProgram
  <2>c. job'[r].pc = "read" => Collected(r)' = Collected(r) \cup {k}
    BY <1>j, <1>1, <2>2, <2>3, CollectedNext
  <2>7. Gathered(r)'
    <3>1. \A d : Skipped(r, d.kind, d)' <=> Skipped(r, d.kind, d)
      BY <2>2, <2>3 DEF Skipped, In
    <3> QED
      BY <2>2, <2>3, <2>4, <2>5, <2>t, <2>c, <3>1 DEF Gathered
  <2>8. Ahead(r)'
    <3>1. SUFFICES ASSUME job[r].quiet, ~job[r].failed
                   PROVE  \A i \in 1 .. 3 : Noted(r, Collection(i))'
      BY <1>1, <2>2, <2>3, <2>4 DEF Ahead
    <3>2. \A i \in 1 .. 3 : Noted(r, Collection(i))
      BY <1>j, <3>1 DEF Own, Ahead
    <3> QED
      BY <3>2, <1>j, <2>2, <2>3 DEF Noted, Of, In
  <2>9. Behind(r)'
    <3>1. SUFFICES ASSUME job[r].quiet, In(r).from # In(r).app
                   PROVE  /\ Held(r)'
                          /\ job'[r].pc = "read" => \A c \in Collected(r)' : Taken(r, c)'
                          /\ job'[r].pc = "add" => \A i \in 1 .. 3 : Taken(r, Collection(i))'
                          /\ job'[r].pc = "add" => Collected(r)' = {}
      BY <2>2, <2>3, <2>4, <2>5 DEF Behind, In
    <3>2. Held(r) /\ \A c \in Collected(r) : Taken(r, c)
      BY <1>j, <3>1 DEF Own, Behind
    <3>3. Held(r)'
      BY <3>2, <1>j, <2>2, <2>3 DEF Held, Of, In
    <3>4. \A c \in Collected(r) \cup {k} : Taken(r, c)'
      <4>1. \A c \in Collected(r) \cup {k} : \A d \in Of(c, In(r).from) : Skipped(r, c, d) \/ d \in todo
        BY <3>2, <2>t DEF Taken
      <4> QED
        BY <4>1, <1>j, <2>2, <2>3 DEF Taken, Skipped, Of, In
    <3>5. job'[r].pc = "add" => job[r].at = 3 /\ Collected(r)' = {}
      BY <1>j, <1>1, <2>2, <2>3, CollectedNext
    <3>6. job'[r].pc = "add" => \A i \in 1 .. 3 : Taken(r, Collection(i))'
      BY <3>4, <3>5, CollectedNext
    <3> QED
      BY <2>c, <3>3, <3>4, <3>5, <3>6
  <2> QED
    BY <2>3, <2>5, <2>7, <2>8, <2>9 DEF Own
<1> QED
  BY <1>2, <1>3 DEF CopyRead

\* What is known of r, and a step CopyWipe of it.
LEMMA CopyWipeOwn ==
  ASSUME CatalogueTyped, NEW r \in Requests, Own(r), CopyWipe(r)
  PROVE  Result(r) /\ Own(r)'
<1> DEFINE j == NextAt(r, "wipe", "done")
           k == Collection(job[r].at)
<1>j. job[r].pc = "wipe" /\ Copying(r) /\ UNCHANGED <<serial, indexed>> /\ "done" \in Pcs
      /\ serial \in Nat /\ docs \subseteq DocumentSet
  BY DEF CopyWipe, At, Copying, Pcs, CatalogueTyped
<1>1. /\ j \in Jobs
      /\ j.in = job[r].in /\ j.have = job[r].have /\ j.todo = job[r].todo /\ j.class = job[r].class
      /\ j.ok = job[r].ok /\ j.quiet = job[r].quiet /\ j.failed = job[r].failed
      /\ j.unlisted = job[r].unlisted
      /\ job[r].at \in 1 .. 3
      /\ job[r].at < 3 => j.at = job[r].at + 1 /\ j.pc = job[r].pc
      /\ job[r].at = 3 => j.at = 1 /\ j.pc = "done"
  BY <1>j, NextAtFields
<1>2. \/ Works /\ docs' = docs \ Of(k, In(r).app) /\ Move(r, j, TRUE)
      \/ Fails /\ UNCHANGED docs /\ Move(r, [j EXCEPT !.failed = TRUE], FALSE)
  BY DEF CopyWipe
<1> HIDE DEF j
<1>3. PICK f \in {job[r].failed, TRUE} : Result(r) /\ job'[r] = [j EXCEPT !.failed = f]
  <2>1. CASE Works /\ docs' = docs \ Of(k, In(r).app) /\ Move(r, j, TRUE)
    <3>1. docs' \subseteq DocumentSet /\ serial' \in Nat
      BY <1>j, <2>1
    <3>2. Result(r) /\ job'[r] = j
      BY <1>j, <1>1, <2>1, <3>1, Stepped
    <3>3. j = [j EXCEPT !.failed = job[r].failed]
      BY <1>1 DEF Jobs
    <3> QED
      BY <3>2, <3>3
  <2>2. CASE Fails /\ UNCHANGED docs /\ Move(r, [j EXCEPT !.failed = TRUE], FALSE)
    <3>1. [j EXCEPT !.failed = TRUE] \in Jobs
      BY <1>1 DEF Jobs
    <3>2. Result(r) /\ job'[r] = [j EXCEPT !.failed = TRUE]
      BY <1>j, <2>2, <3>1, Looked
    <3> QED
      BY <3>2
  <2> QED
    BY <1>2, <2>1, <2>2
<1>4. /\ job'[r].have = job[r].have /\ job'[r].todo = job[r].todo /\ job'[r].ok = job[r].ok
      /\ CopyStays(r) /\ job'[r].pc = j.pc
  BY <1>1, <1>3, JobOf DEF Jobs, CopyStays
<1>5. job'[r].pc \in {"wipe", "done"}
  BY <1>j, <1>1, <1>4
<1> QED
  BY <1>j, <1>3, <1>4, <1>5, CopyEnds

\* What is known of r, and a step CopyAddFails of it.
LEMMA CopyAddFailsOwn ==
  ASSUME CatalogueTyped, NEW r \in Requests, Own(r), CopyAddFails(r)
  PROVE  Result(r) /\ Own(r)'
<1>j. job[r].pc = "add" /\ Copying(r) /\ UNCHANGED <<lists, indexed>> /\ "wipe" \in Pcs
      /\ serial \in Nat /\ docs \subseteq DocumentSet /\ job[r] \in Jobs
  BY JobOf DEF CopyAddFails, At, Copying, Pcs, CatalogueTyped
<1>1. PICK some \in SUBSET Batch(r) :
        /\ Fails \/ Works
        /\ docs' = docs \cup Fresh(r, some)
        /\ serial' = serial + Cardinality(Fresh(r, some))
        /\ Move(r, [job[r] EXCEPT !.pc = "wipe", !.at = 1, !.failed = @ \/ faults' > faults], TRUE)
  BY DEF CopyAddFails
<1> DEFINE f == job[r].failed \/ faults' > faults
           j == [job[r] EXCEPT !.pc = "wipe", !.at = 1, !.failed = f]
<1> DEFINE k == Collection(job[r].at)
<1>2. some \in SUBSET job[r].todo /\ \A d \in some : d.kind = k
  BY <1>1 DEF Batch
<1>3. Fresh(r, some) \subseteq DocumentSet /\ Cardinality(Fresh(r, some)) \in Nat
  <2> HIDE DEF k
  <2> QED
    BY <1>2, <1>j, FreshFacts, ZenonT(60)
<1>4. docs' \subseteq DocumentSet /\ serial' \in Nat
  BY <1>1, <1>3, <1>j
<1>5. Move(r, j, TRUE)
  <2>1. j = [job[r] EXCEPT !.pc = "wipe", !.at = 1, !.failed = @ \/ faults' > faults]
    BY <1>j DEF Jobs
  <2> QED
    BY <2>1, <1>1
<1>6. f \in BOOLEAN /\ (job[r].failed => f)
  BY <1>j DEF Jobs
<1> HIDE DEF f
<1>7. /\ j \in Jobs /\ j.in = job[r].in /\ j.class = job[r].class /\ j.unlisted = job[r].unlisted
      /\ j.quiet = job[r].quiet /\ j.failed = f /\ j.have = job[r].have /\ j.todo = job[r].todo
      /\ j.ok = job[r].ok /\ j.pc = "wipe"
  <2>1. 1 \in 1 .. 3
    OBVIOUS
  <2> QED
    BY <1>j, <1>6, <2>1 DEF Jobs
<1> HIDE DEF j
<1>8. Result(r) /\ job'[r] = j
  BY <1>1, <1>j, <1>4, <1>5, <1>7, Stepped
<1>9. CopyStays(r)
  BY <1>6, <1>7, <1>8 DEF CopyStays
<1> QED
  BY <1>j, <1>7, <1>8, <1>9, CopyEnds

\* What is known of r, and a step CopyAdd of it.
LEMMA CopyAddOwn ==
  ASSUME CatalogueTyped, NEW r \in Requests, Own(r), CopyAdd(r)
  PROVE  Result(r) /\ Own(r)'
<1> DEFINE k == Collection(job[r].at)
           new == Fresh(r, Batch(r))
           n == NextAt(r, "add", "done")
           ok == (n.pc = "done")
           j == [n EXCEPT !.ok = ok]
           w == (new # {})
<1>j. job[r].pc = "add" /\ Copying(r) /\ UNCHANGED indexed /\ "done" \in Pcs /\ Works
      /\ docs \subseteq DocumentSet /\ serial \in Nat
  BY DEF CopyAdd, At, Copying, Pcs, CatalogueTyped
<1>1. /\ n \in Jobs
      /\ n.in = job[r].in /\ n.have = job[r].have /\ n.todo = job[r].todo /\ n.class = job[r].class
      /\ n.ok = job[r].ok /\ n.quiet = job[r].quiet /\ n.failed = job[r].failed
      /\ n.unlisted = job[r].unlisted
      /\ job[r].at \in 1 .. 3
      /\ job[r].at < 3 => n.at = job[r].at + 1 /\ n.pc = job[r].pc
      /\ job[r].at = 3 => n.at = 1 /\ n.pc = "done"
  BY <1>j, NextAtFields
<1>2. docs' = docs \cup new /\ serial' = serial + Cardinality(new) /\ Move(r, j, w)
  BY DEF CopyAdd
<1>b. Batch(r) \in SUBSET job[r].todo /\ \A d \in Batch(r) : d.kind = k
  BY DEF Batch
<1>3. /\ new \subseteq DocumentSet /\ Cardinality(new) \in Nat
      /\ \A c \in new : c.kind = k /\ c.app = In(r).app
      /\ \A d \in Batch(r) : \E c \in new :
           /\ c.kind = k /\ c.key = CopyKey(d, In(r).app) /\ c.app = In(r).app
           /\ c.uses = CopyUses(d, In(r).app)
  <2> HIDE DEF k
  <2>0. PICK ds : ds = Batch(r)
    OBVIOUS
  <2>1. ds \in SUBSET job[r].todo /\ \A d \in ds : d.kind = k
    BY <1>b, <2>0
  <2>2. Fresh(r, ds) \subseteq DocumentSet /\ Cardinality(Fresh(r, ds)) \in Nat
    BY <2>1, <1>j, FreshFacts, ZenonT(60)
  <2>3. \A c \in Fresh(r, ds) : \E d \in ds :
              /\ c.kind = k /\ c.key = CopyKey(d, In(r).app) /\ c.app = In(r).app /\ c.by = "copy"
    BY <2>1, <1>j, FreshFacts, ZenonT(60)
  <2>4. \A d \in ds : \E c \in Fresh(r, ds) :
              /\ c.kind = k /\ c.key = CopyKey(d, In(r).app) /\ c.app = In(r).app
              /\ c.uses = CopyUses(d, In(r).app)
    BY <2>1, <1>j, FreshOfEach
  <2> QED
    BY <2>0, <2>2, <2>3, <2>4
<1> HIDE DEF new, n
<1>4. docs' \subseteq DocumentSet /\ serial' \in Nat /\ (w \/ docs' = docs)
  BY <1>2, <1>3, <1>j
<1>o. ok \in BOOLEAN /\ w \in BOOLEAN /\ (ok <=> n.pc = "done")
  OBVIOUS
<1> HIDE DEF ok, w
<1>5. /\ j \in Jobs
      /\ j.in = job[r].in /\ j.have = job[r].have /\ j.todo = job[r].todo /\ j.class = job[r].class
      /\ j.ok = ok /\ j.quiet = job[r].quiet /\ j.failed = job[r].failed
      /\ j.unlisted = job[r].unlisted /\ j.at = n.at /\ j.pc = n.pc
  BY <1>1, <1>o DEF Jobs
<1> HIDE DEF j
<1>6. Result(r) /\ job'[r] = j
  BY <1>j, <1>o, <1>2, <1>4, <1>5, Stepped
<1>7. CopyStays(r) /\ job'[r].pc \in {"add", "done"} /\ (job'[r].pc = "done" <=> job[r].at = 3)
  BY <1>j, <1>1, <1>5, <1>6 DEF CopyStays
<1>8. Program(r)' /\ CheckedFree(r)' /\ Copying(r)' /\ ~job[r].ok
  BY <1>j, <1>7, CopyProgram
<1>9. Gathered(r)'
  <2>1. job'[r].ok => job'[r].pc = "done"
    BY <1>o, <1>5, <1>6
  <2>2. \A d : Skipped(r, d.kind, d)' <=> Skipped(r, d.kind, d)
    BY <1>5, <1>6 DEF Skipped, In
  <2> QED
    BY <1>j, <1>5, <1>6, <1>7, <2>1, <2>2 DEF Own, Gathered
<1>10. Ahead(r)'
  <2>1. SUFFICES ASSUME job[r].quiet, ~job[r].failed, job'[r].pc = "add",
                        NEW i \in job'[r].at .. 3
                 PROVE  Noted(r, Collection(i))'
    BY <1>5, <1>6, <1>7 DEF Ahead
  <2>2. job'[r].at = job[r].at + 1
    BY <1>j, <1>1, <1>5, <1>6, <2>1
  <2>3. i \in 1 .. 3 /\ i # job[r].at /\ i \in job[r].at .. 3
    BY <1>1, <2>1, <2>2
  <2>4. Collection(i) # k
    BY <1>1, <2>3, CollectionFacts
  <2>5. Noted(r, Collection(i))
    BY <1>j, <2>1, <2>3 DEF Own, Ahead
  <2>6. Of(Collection(i), In(r).app)' \subseteq Of(Collection(i), In(r).app)
    BY <1>2, <1>3, <1>5, <1>6, <2>4 DEF Of, In
  <2> QED
    BY <1>5, <1>6, <2>5, <2>6 DEF Noted, In
<1>11. Behind(r)'
  <2>1. SUFFICES ASSUME job[r].quiet, In(r).from # In(r).app
                 PROVE  /\ Held(r)'
                        /\ \A i \in 1 .. 3 : Taken(r, Collection(i))'
                        /\ job'[r].pc = "add" => \A c \in Collected(r)' : Added(r, c)'
                        /\ job'[r].ok => \A i \in 1 .. 3 : Added(r, Collection(i))'
    BY <1>5, <1>6, <1>7, <1>8 DEF Behind, In
  <2>2. Held(r) /\ (\A i \in 1 .. 3 : Taken(r, Collection(i))) /\ \A c \in Collected(r) : Added(r, c)
    BY <1>j, <2>1 DEF Own, Behind
  <2>3. \A c : Of(c, In(r).app) \subseteq Of(c, In(r).app)'
    BY <1>2, <1>5, <1>6 DEF Of, In
  <2>4. Held(r)'
    BY <2>2, <2>3, <1>5, <1>6 DEF Held, In
  <2>5. \A c : Of(c, In(r).from)' = Of(c, In(r).from)
    BY <1>2, <1>3, <1>5, <1>6, <2>1 DEF Of, In
  <2>6. \A i \in 1 .. 3 : Taken(r, Collection(i))'
    BY <2>2, <2>5, <1>5, <1>6 DEF Taken, Skipped, In
  <2>7. ASSUME NEW c \in Collected(r) \cup {k}
        PROVE  Added(r, c)'
    <3>1. ASSUME NEW d \in job[r].todo, d.kind = c
          PROVE  \E e \in Of(c, In(r).app)' :
                   e.key = CopyKey(d, In(r).app) /\ e.uses = CopyUses(d, In(r).app)
      <4>1. CASE c = k
        <5>1. d \in Batch(r)
          BY <3>1, <4>1 DEF Batch
        <5>2. PICK e \in new : /\ e.kind = k /\ e.key = CopyKey(d, In(r).app) /\ e.app = In(r).app
                               /\ e.uses = CopyUses(d, In(r).app)
          BY <5>1, <1>3
        <5>3. e \in Of(c, In(r).app)'
          BY <5>2, <4>1, <1>2, <1>5, <1>6 DEF Of, In
        <5> QED
          BY <5>2, <5>3
      <4>2. CASE c \in Collected(r)
        <5>1. Added(r, c)
          BY <2>2, <4>2
        <5> QED
          BY <5>1, <3>1, <2>3 DEF Added
      <4> QED
        BY <4>1, <4>2
    <3>2. In(r)' = In(r) /\ job'[r].todo = job[r].todo
      BY <1>5, <1>6 DEF In
    <3> QED
      BY <3>1, <3>2 DEF Added
  <2>8. job'[r].pc = "add" => Collected(r)' = Collected(r) \cup {k}
    BY <1>j, <1>1, <1>5, <1>6, CollectedNext
  <2>9. job'[r].ok => \A i \in 1 .. 3 : Collection(i) \in Collected(r) \cup {k}
    BY <1>7, <1>o, <1>5, <1>6, CollectedNext
  <2> QED
    BY <2>4, <2>6, <2>7, <2>8, <2>9
<1> QED
  BY <1>6, <1>8, <1>9, <1>10, <1>11 DEF Own

\* What a request relies on, of itself and, while nobody has disturbed it, of
\* the documents.
LEMMA KeptOwn ==
  ASSUME NEW q \in Requests, Own(q),
         job'[q].pc = job[q].pc, job'[q].in = job[q].in, job'[q].got = job[q].got,
         job'[q].class = job[q].class, job'[q].at = job[q].at, job'[q].have = job[q].have,
         job'[q].todo = job[q].todo, job'[q].ok = job[q].ok, job'[q].failed = job[q].failed,
         job'[q].unlisted = job[q].unlisted,
         job'[q].quiet => job[q].quiet,
         job'[q].quiet => docs' = docs
  PROVE  Own(q)'
<1>3. Program(q)'
  BY DEF Own, Program, In
<1>4. CheckedFree(q)'
  BY DEF Own, CheckedFree, FreeId, Named, In
<1>5. Gathered(q)'
  BY DEF Own, Gathered, Copying, Collected, Skipped, In
<1>6. Ahead(q)'
  BY DEF Own, Ahead, Copying, Collected, Noted, Of, In
<1>7. Behind(q)'
  <2>1. SUFFICES ASSUME Copying(q), job[q].quiet, docs' = docs, In(q).from # In(q).app
                 PROVE  Behind(q)'
    BY DEF Behind, Copying, In
  <2>2. /\ Held(q)' <=> Held(q)
        /\ \A k : (Taken(q, k)' <=> Taken(q, k)) /\ (Added(q, k)' <=> Added(q, k))
        /\ Collected(q)' = Collected(q)
    BY <2>1 DEF Held, Taken, Added, Collected, Skipped, Of, In
  <2> QED
    BY <2>1, <2>2 DEF Own, Behind, Copying, In
<1> QED
  BY <1>3, <1>4, <1>5, <1>6, <1>7 DEF Own

\* What is known of the requests that do not move is not disturbed.
LEMMA OthersOwn ==
  ASSUME NEW r \in Requests, Result(r), NEW q \in Requests \ {r}, Own(q)
  PROVE  Own(q)'
  BY KeptOwn DEF Result, Frame, Undisturbed

\* What a step does to the documents.
DocsStep(r) ==
  \/ docs' \subseteq docs /\ serial' = serial
  \/ /\ job[r].pc = "write" /\ serial' = serial
     /\ \E d \in Matches(r) : docs' = Written(d, r)
  \/ /\ job[r].pc = "insert"
     /\ docs' = docs \cup {NewDoc(r)} /\ serial' = serial + 1
  \/ /\ job[r].pc = "add"
     /\ \E ds \in SUBSET Batch(r) :
          docs' = docs \cup Fresh(r, ds) /\ serial' = serial + Cardinality(Fresh(r, ds))

\* Every step changes the documents in one of the ways of DocsStep.
LEMMA StepDocs ==
  ASSUME NEW r \in Requests, CatalogueStep(r)
  PROVE  DocsStep(r)
<1>1. CASE Handlers(r)
  BY <1>1 DEF Handlers, CreateConfiguration, UpdateConfiguration, DeleteConfiguration, GetConfiguration,
     AddConfiguration, CreateTemplate, UpdateTemplate, DeleteTemplate, GetTemplate, CreateScene,
     UpdateScene, DeleteScene, GetScene, CreateSceneRelation, UpdateSceneRelation, DeleteSceneRelation,
     GetSceneRelation, CopySceneRelation, SendMessageByScene, Accepts, DocsStep
<1>2. CASE Check(r) \/ Parent(r) \/ Register(r) \/ Find(r) \/ RemoveFails(r) \/ Unregister(r)
           \/ GetList(r) \/ SetList(r) \/ Look(r) \/ FindClass(r) \/ FindTemplate(r) \/ ReadList(r)
           \/ CopyExisting(r) \/ CopyRead(r)
  BY <1>2 DEF Check, Parent, Register, Find, RemoveFails, Unregister, GetList, SetList, Look, FindClass,
     FindTemplate, ReadList, CopyExisting, CopyRead, DocsStep
<1>3. CASE Remove(r) \/ CopyClear(r) \/ CopyWipe(r)
  BY <1>3 DEF Remove, CopyClear, CopyWipe, DocsStep
<1>4. CASE Insert(r) \/ Write(r)
  BY <1>4 DEF Insert, Write, At, DocsStep
<1>5. CASE CopyAdd(r) \/ CopyAddFails(r)
  BY <1>5 DEF CopyAdd, CopyAddFails, At, DocsStep
<1> QED
  BY <1>1, <1>2, <1>3, <1>4, <1>5 DEF CatalogueStep

\* Every step keeps what is known of the request that makes it.
LEMMA StepOwn ==
  ASSUME CatalogueTyped, Numbered, NEW r \in Requests, Own(r), CatalogueStep(r)
  PROVE  Result(r) /\ Own(r)'
<1>1. CASE Handlers(r) \/ Check(r) \/ Parent(r) \/ Register(r) \/ Insert(r) \/ Find(r)
  BY <1>1, AcceptsOwn, CheckOwn, ParentOwn, RegisterOwn, InsertOwn, FindOwn
<1>2. CASE Write(r) \/ Remove(r) \/ RemoveFails(r) \/ Unregister(r) \/ GetList(r) \/ SetList(r)
  BY <1>2, UpdateOwn, RemoveOwn, RemoveFailsOwn, UnregisterOwn, GetListOwn, SetListOwn
<1>3. CASE Look(r) \/ FindClass(r) \/ FindTemplate(r) \/ ReadList(r)
  BY <1>3, LookOwn, FindClassOwn, FindTemplateOwn, ReadListOwn
<1>4. CASE CopyClear(r) \/ CopyExisting(r) \/ CopyRead(r) \/ CopyAdd(r) \/ CopyAddFails(r) \/ CopyWipe(r)
  BY <1>4, CopyClearOwn, CopyExistingOwn, CopyReadOwn, CopyAddOwn, CopyAddFailsOwn, CopyWipeOwn
<1> QED
  BY <1>1, <1>2, <1>3, <1>4 DEF CatalogueStep

\* A batch that is added.
LEMMA BatchFacts ==
  ASSUME CatalogueTyped, NEW r \in Requests, Own(r), job[r].pc = "add", NEW ds \in SUBSET Batch(r)
  PROVE  /\ Fresh(r, ds) \subseteq DocumentSet /\ IsFiniteSet(Fresh(r, ds))
         /\ Cardinality(Fresh(r, ds)) \in Nat
         /\ \A c \in Fresh(r, ds) :
              /\ c.kind = Collection(job[r].at) /\ c.app = In(r).app /\ c.by = "copy"
              /\ \E d \in ds : c.key = CopyKey(d, In(r).app)
         /\ \A c \in Fresh(r, ds) :
              serial <= c.id /\ c.id <= serial + Cardinality(Fresh(r, ds)) - 1
         /\ \A c, e \in Fresh(r, ds) : c.id = e.id => c = e
<1>1. Copying(r)
  BY DEF Own, Program, Copying
<1>2. PICK k : k = Collection(job[r].at)
  OBVIOUS
<1>3. ds \in SUBSET job[r].todo /\ \A d \in ds : d.kind = k
  BY <1>2 DEF Batch
<1>4. Fresh(r, ds) \subseteq DocumentSet /\ IsFiniteSet(Fresh(r, ds))
  BY <1>1, <1>3, FreshFacts, ZenonT(60)
<1>5. Cardinality(Fresh(r, ds)) \in Nat
  BY <1>1, <1>3, FreshFacts, ZenonT(60)
<1>6. \A c \in Fresh(r, ds) : \E d \in ds :
        /\ c.kind = k /\ c.key = CopyKey(d, In(r).app) /\ c.app = In(r).app /\ c.by = "copy"
  BY <1>1, <1>3, FreshFacts, ZenonT(60)
<1>7. \A c \in Fresh(r, ds) : serial <= c.id /\ c.id <= serial + Cardinality(Fresh(r, ds)) - 1
  BY <1>1, <1>3, FreshFacts, ZenonT(60)
<1>8. \A c, e \in Fresh(r, ds) : c.id = e.id => c = e
  BY <1>1, <1>3, FreshFacts, ZenonT(60)
<1> QED
  BY <1>2, <1>4, <1>5, <1>6, <1>7, <1>8

\* Every step keeps the serial numbers apart.
LEMMA StepNumbered ==
  ASSUME CatalogueTyped, Numbered, NEW r \in Requests, Own(r), DocsStep(r)
  PROVE  Numbered'
<1>0. serial \in Nat /\ serial >= 1 /\ docs \subseteq DocumentSet /\ IsFiniteSet(docs)
      /\ (\A d \in docs : d.id \in 1 .. (serial - 1)) /\ \A d, e \in docs : d.id = e.id => d = e
  BY DEF CatalogueTyped, Numbered
<1>1. CASE docs' \subseteq docs /\ serial' = serial
  <2>1. IsFiniteSet(docs')
    BY <1>0, <1>1, FS_Subset
  <2> QED
    BY <1>0, <1>1, <2>1 DEF Numbered
<1>2. ASSUME job[r].pc = "write", serial' = serial, NEW d \in Matches(r), docs' = Written(d, r)
      PROVE  Numbered'
  <2>1. d \in docs /\ (d.kind \in Checked => In(r).kind \in Checked)
    BY DEF Matches, Named
  <2>2. PICK x : x = Edit(d, r)
    OBVIOUS
  <2>3. x.id = d.id /\ docs' = (docs \ {d}) \cup {x}
    BY <1>2, <2>1, <2>2, EditFields DEF Written
  <2>4. IsFiniteSet(docs \ {d})
    BY <1>0, FS_Subset
  <2>5. IsFiniteSet(docs')
    BY <2>3, <2>4, FS_AddElement
  <2> QED
    BY <1>0, <1>2, <2>1, <2>3, <2>5 DEF Numbered
<1>3. CASE job[r].pc = "insert" /\ docs' = docs \cup {NewDoc(r)} /\ serial' = serial + 1
  <2>1. PICK x : x = NewDoc(r)
    OBVIOUS
  <2>2. x.id = serial /\ docs' = docs \cup {x}
    BY <1>3, <2>1, NewDocFields
  <2>3. IsFiniteSet(docs')
    BY <1>0, <2>2, FS_AddElement
  <2>4. serial \in 1 .. (serial' - 1)
    BY <1>0, <1>3
  <2>5. \A d \in docs : d.id \in 1 .. (serial' - 1) /\ d.id # serial
    BY <1>0, <1>3
  <2> QED
    BY <1>0, <1>3, <2>2, <2>3, <2>4, <2>5 DEF Numbered
<1>4. ASSUME job[r].pc = "add", NEW ds \in SUBSET Batch(r),
             docs' = docs \cup Fresh(r, ds), serial' = serial + Cardinality(Fresh(r, ds))
      PROVE  Numbered'
  <2>1. PICK new : new = Fresh(r, ds)
    OBVIOUS
  <2>2. /\ IsFiniteSet(new) /\ Cardinality(new) \in Nat
        /\ \A c \in new : c.id \in Nat /\ serial <= c.id /\ c.id <= serial + Cardinality(new) - 1
        /\ \A c, e \in new : c.id = e.id => c = e
    BY <1>4, <2>1, BatchFacts DEF DocumentSet
  <2>3. IsFiniteSet(docs')
    BY <1>0, <1>4, <2>1, <2>2, FS_Union
  <2>4. \A d \in docs : d.id \in 1 .. (serial' - 1) /\ d.id < serial
    BY <1>0, <1>4, <2>1, <2>2
  <2>6. \A c \in new : c.id \in 1 .. (serial' - 1) /\ ~(c.id < serial)
    BY <1>0, <1>4, <2>1, <2>2
  <2> QED
    BY <1>0, <1>4, <2>1, <2>2, <2>3, <2>4, <2>6 DEF Numbered
<1> QED
  BY <1>1, <1>2, <1>3, <1>4 DEF DocsStep

CopyInv == CatalogueTyped /\ Numbered /\ \A r \in Requests : Own(r)

\* The invariant holds at the start,
LEMMA CopyStart == CatalogueInit => CopyInv
<1> SUFFICES ASSUME CatalogueInit PROVE CopyInv
  OBVIOUS
<1>1. Idle \in Jobs /\ Idle.pc = "idle" /\ Idle.unlisted = FALSE
  BY DEF Idle, Jobs, Pcs
<1>2. job \in [Requests -> Jobs] /\ \A r \in Requests : job[r].pc = "idle" /\ ~job[r].unlisted
  BY <1>1 DEF CatalogueInit
<1>3. Cardinality(Initial) \in Nat /\ Initial \subseteq DocumentSet
  BY CatalogueAssumption, FS_CardinalityType
<1>4. CatalogueTyped
  BY <1>2, <1>3, CatalogueAssumption DEF CatalogueInit, CatalogueTyped
<1>5. Numbered
  BY <1>3, CatalogueAssumption DEF CatalogueInit, Numbered
<1>6. \A r \in Requests : Own(r)
  BY <1>2 DEF Own, Program, CheckedFree, Gathered, Ahead, Behind, Copying
<1> QED
  BY <1>4, <1>5, <1>6 DEF CopyInv

\* and is kept.
LEMMA CopyStep == CopyInv /\ [CatalogueNext]_catalogueVars => CopyInv'
<1> SUFFICES ASSUME CopyInv, [CatalogueNext]_catalogueVars PROVE CopyInv'
  OBVIOUS
<1>1. ASSUME NEW r \in Requests, CatalogueStep(r)
      PROVE  CopyInv'
  <2>1. Result(r) /\ Own(r)'
    BY <1>1, StepOwn DEF CopyInv
  <2>2. \A q \in Requests : Own(q)'
    BY <2>1, OthersOwn DEF CopyInv
  <2>3. Numbered'
    BY <1>1, StepDocs, StepNumbered DEF CopyInv
  <2> QED
    BY <2>1, <2>2, <2>3 DEF CopyInv, Result
<1>2. CASE UNCHANGED catalogueVars
  <2>1. docs' = docs /\ job' = job /\ serial' = serial /\ faults' = faults /\ indexed' = indexed
    BY <1>2 DEF catalogueVars
  <2>2. CatalogueTyped' /\ Numbered'
    BY <2>1 DEF CopyInv, CatalogueTyped, Numbered
  <2>3. \A q \in Requests : Own(q)'
    BY <2>1, KeptOwn DEF CopyInv
  <2> QED
    BY <2>2, <2>3 DEF CopyInv
<1> QED
  BY <1>1, <1>2 DEF CatalogueNext

\* The program of each request, what it has found, and what a copy has collected
\* and added, as long as nobody disturbs it.
THEOREM CopyInvHolds == CatalogueSpec => []CopyInv
<1> QED
  BY CopyStart, CopyStep, PTL DEF CatalogueSpec

\* The steps of a request, and the serial numbers of the documents.
THEOREM CatalogueTypesHold == CatalogueSpec => []CatalogueTypeOK
<1>1. CopyInv => CatalogueTypeOK
  <2> SUFFICES ASSUME CopyInv PROVE CatalogueTypeOK
    OBVIOUS
  <2>1. \A d \in docs : d.id \in 1 .. (serial - 1) /\ d.kind \in {"class", "template", "scene", "relation"}
    BY DEF CopyInv, Numbered, CatalogueTyped, DocumentSet, Collections
  <2>2. \A d, e \in docs : d.id = e.id => d = e
    BY DEF CopyInv, Numbered
  <2>3. \A r \in Requests : job[r].pc \in Pcs
    BY DEF CopyInv, CatalogueTyped, Jobs
  <2>4. faults \in 0 .. MaxFaults
    BY CatalogueAssumption DEF CopyInv, CatalogueTyped
  <2> QED
    BY <2>1, <2>2, <2>3, <2>4 DEF CatalogueTypeOK, Pcs
<1> QED
  BY <1>1, CopyInvHolds, PTL

\* A copy that answers "ok" and was not disturbed has copied all that the old
\* application had, and what the new relations use is there.
THEOREM CopyWorksHolds == CatalogueSpec => []CopyWorks
<1>1. ASSUME CopyInv, NEW r \in Requests, CopyDone(r), In(r).from # In(r).app
      PROVE  Complete(r) /\ RefersToCopies(r)
  <2>1. Held(r) /\ \A i \in 1 .. 3 : Taken(r, Collection(i)) /\ Added(r, Collection(i))
    BY <1>1 DEF CopyInv, Own, Behind, Copying, CopyDone
  <2>2. \A k \in {"class", "template", "relation"} : Taken(r, k) /\ Added(r, k)
    <3>1. Collection(1) = "class" /\ Collection(2) = "template" /\ Collection(3) = "relation"
      BY DEF Collection
    <3>2. 1 \in 1 .. 3 /\ 2 \in 1 .. 3 /\ 3 \in 1 .. 3
      OBVIOUS
    <3> QED
      BY <2>1, <3>1, <3>2
  <2>3. docs \subseteq DocumentSet
    BY <1>1 DEF CopyInv, CatalogueTyped
  <2>4. ASSUME NEW d \in docs, d.app = In(r).from, d.kind # "scene"
        PROVE  \E e \in Of(d.kind, In(r).app) : e.key = CopyKey(d, In(r).app)
    <3>1. d.kind \in {"class", "template", "relation"}
      BY <2>3, <2>4 DEF DocumentSet, Collections
    <3>2. d \in Of(d.kind, In(r).from)
      BY <2>4 DEF Of
    <3>3. CASE Skipped(r, d.kind, d)
      <4>1. PICK h \in job[r].have : h = <<d.kind, CopyKey(d, In(r).app)>>
        BY <3>3 DEF Skipped
      <4> QED
        BY <2>1, <4>1 DEF Held
    <3>4. CASE d \in job[r].todo
      BY <2>2, <3>1, <3>4 DEF Added
    <3> QED
      BY <2>2, <3>1, <3>2, <3>3, <3>4 DEF Taken
  <2>5. ASSUME NEW d \in Of("relation", In(r).from), ~Skipped(r, "relation", d),
               Present(d.uses, In(r).from)
        PROVE  \E e \in Of("relation", In(r).app) : e.key = d.key /\ Present(e.uses, In(r).app)
    <3>1. d \in job[r].todo /\ d.kind = "relation" /\ d.uses \in Uses
      BY <2>2, <2>3, <2>5 DEF Taken, Of, DocumentSet
    <3>2. PICK e \in Of("relation", In(r).app) :
            e.key = CopyKey(d, In(r).app) /\ e.uses = CopyUses(d, In(r).app)
      BY <2>2, <3>1 DEF Added
    <3>3. ASSUME NEW u \in d.uses
          PROVE  Named(u[1], Append(u[2], In(r).app)) \cap Of(u[1], In(r).app) # {}
      <4>1. u[1] \in {"class", "template"}
        BY <3>1 DEF Uses
      <4>2. PICK x \in docs : x.kind = u[1] /\ x.key = u[2] /\ x.app = In(r).from
        BY <2>5 DEF Present, Named, Of
      <4>3. PICK y \in Of(x.kind, In(r).app) : y.key = CopyKey(x, In(r).app)
        BY <2>4, <4>1, <4>2
      <4>4. y.key = Append(u[2], In(r).app)
        BY <4>1, <4>2, <4>3 DEF CopyKey
      <4> QED
        BY <4>2, <4>3, <4>4 DEF Named, Of
    <3>4. Present(CopyUses(d, In(r).app), In(r).app)
      <4>1. ASSUME NEW v \in CopyUses(d, In(r).app)
            PROVE  Named(v[1], v[2]) \cap Of(v[1], In(r).app) # {}
        <5>1. PICK u \in d.uses : v = <<u[1], Append(u[2], In(r).app)>>
          BY DEF CopyUses
        <5>2. v[1] = u[1] /\ v[2] = Append(u[2], In(r).app)
          BY <5>1
        <5> QED
          BY <3>3, <5>2
      <4> QED
        BY <4>1 DEF Present
    <3> QED
      BY <3>1, <3>2, <3>4 DEF CopyKey
  <2> QED
    BY <2>4, <2>5 DEF Complete, RefersToCopies
<1>2. CopyInv => CopyWorks
  BY <1>1 DEF CopyWorks
<1> QED
  BY <1>2, CopyInvHolds, PTL

\* No request that nobody disturbed, and whose calls all worked, inserts an id a
\* second time.
THEOREM NoDuplicateHolds == CatalogueSpec => NoDuplicate
<1> DEFINE Once ==
      \A d \in docs' : (/\ d.id >= serial
                        /\ d.kind \in Checked
                        /\ d.quiet)
        => ~ \E e \in docs : /\ e.kind = d.kind
                             /\ e.key = d.key
                             /\ d.by = "copy" => e.app = d.app
<1>1. ASSUME CopyInv, [CatalogueNext]_catalogueVars
      PROVE  Once
  <2> SUFFICES ASSUME NEW d \in docs', d.id >= serial, d.kind \in Checked, d.quiet
               PROVE  ~ \E e \in docs : /\ e.kind = d.kind
                                        /\ e.key = d.key
                                        /\ d.by = "copy" => e.app = d.app
    OBVIOUS
  <2>0. serial \in Nat /\ docs \subseteq DocumentSet /\ \A e \in docs : ~(e.id >= serial)
    <3>1. serial \in Nat /\ docs \subseteq DocumentSet /\ \A e \in docs : e.id \in 1 .. (serial - 1)
      BY <1>1 DEF CopyInv, CatalogueTyped, Numbered
    <3> QED
      BY <3>1
  <2>1. CASE UNCHANGED catalogueVars
    BY <2>0, <2>1 DEF catalogueVars
  <2>2. ASSUME NEW r \in Requests, CatalogueStep(r)
        PROVE  ~ \E e \in docs : /\ e.kind = d.kind
                                 /\ e.key = d.key
                                 /\ d.by = "copy" => e.app = d.app
    <3>0. DocsStep(r) /\ Own(r) /\ CatalogueTyped
      BY <1>1, <2>2, StepDocs DEF CopyInv
    <3>1. CASE docs' \subseteq docs
      BY <2>0, <3>1
    <3>2. ASSUME job[r].pc = "write", NEW x \in Matches(r), docs' = Written(x, r)
          PROVE  FALSE
      <4>1. x \in docs /\ (x.kind \in Checked => In(r).kind \in Checked)
        BY DEF Matches, Named
      <4>2. Edit(x, r).id = x.id
        BY <3>0, <3>2, <4>1, EditFields
      <4> QED
        BY <2>0, <3>2, <4>1, <4>2 DEF Written
    <3>3. CASE job[r].pc = "insert" /\ docs' = docs \cup {NewDoc(r)}
      <4>1. d = NewDoc(r)
        BY <2>0, <3>3
      <4>2. d.kind = In(r).kind /\ d.key = In(r).key /\ d.quiet = (job[r].quiet /\ ~job[r].failed)
        BY <3>0, <3>3, <4>1, NewDocFields
      <4>3. FreeId(r)
        BY <3>0, <3>3, <4>2 DEF Own, CheckedFree
      <4> QED
        BY <4>2, <4>3 DEF FreeId, Named
    <3>4. ASSUME job[r].pc = "add", NEW ds \in SUBSET Batch(r), docs' = docs \cup Fresh(r, ds)
          PROVE  ~ \E e \in docs : e.kind = d.kind /\ e.key = d.key /\ (d.by = "copy" => e.app = d.app)
      <4>1. d \in Fresh(r, ds)
        BY <2>0, <3>4
      <4>2. d.kind = Collection(job[r].at) /\ d.app = In(r).app /\ d.by = "copy"
            /\ \E x \in ds : d.key = CopyKey(x, In(r).app)
        BY <3>0, <3>4, <4>1, BatchFacts
      <4>3. PICK x \in ds : d.key = CopyKey(x, In(r).app)
        BY <4>2
      <4>4. x \in job[r].todo /\ x.kind = Collection(job[r].at)
        BY DEF Batch
      <4>5. job[r].quiet /\ ~job[r].failed
        BY <4>1, FreshQuiet
      <4>6. Copying(r) /\ job[r].at \in job[r].at .. 3
        BY <3>0, <3>4, JobOf DEF Own, Program, Copying, Jobs
      <4>7. Noted(r, Collection(job[r].at))
        BY <3>0, <3>4, <4>5, <4>6 DEF Own, Ahead
      <4>8. ~Skipped(r, x.kind, x)
        BY <3>0, <4>4, <4>6 DEF Own, Gathered
      <4>9. SUFFICES ASSUME NEW e \in docs, e.kind = d.kind, e.key = d.key, e.app = d.app
                     PROVE  FALSE
        BY <4>2
      <4>10. e \in Of(Collection(job[r].at), In(r).app)
        BY <4>2, <4>9 DEF Of
      <4>11. <<Collection(job[r].at), e.key>> \in job[r].have
        BY <4>7, <4>10 DEF Noted
      <4> QED
        BY <4>3, <4>4, <4>8, <4>9, <4>11 DEF Skipped
    <3> QED
      BY <3>0, <3>1, <3>2, <3>3, <3>4 DEF DocsStep
  <2> QED
    BY <1>1, <2>1, <2>2 DEF CatalogueNext
<1>2. CatalogueSpec => [][Once]_catalogueVars
  BY <1>1, CopyInvHolds, PTL DEF CatalogueSpec
<1> QED
  BY <1>2 DEF NoDuplicate

---------------------------------------------------------------------------
\* A class that nothing overlapped when it was created.
Rooted(d) == d.kind = "class" /\ d.by = "create" /\ d.alone

\* A request that holds a class it has read.
HasClass(r) == job[r].pc \in {"template", "list"} \/ job[r].unlisted

\* Where a request comes from, step by step, as far as classes and their lists go.
NextList(r) ==
  /\ job'[r].pc \in {"parent", "register", "insert"} /\ In(r)'.kind = "class" =>
       /\ docs' = docs /\ In(r)'.key = In(r).key /\ In(r).kind = "class"
       /\ \/ job[r].pc = "check" /\ FreeId(r)
          \/ job[r].pc \in {"parent", "register"}
       /\ job'[r].pc = "insert" /\ In(r)'.mode = "listening" => In(r).key \in lists'
  /\ job'[r].pc = "remove" /\ In(r)'.kind = "class" =>
       /\ docs' = docs /\ In(r)' = In(r)
       /\ job'[r].got \in Named("class", In(r).key)
  /\ job'[r].pc = "unregister" =>
       /\ job[r].pc = "remove" /\ In(r).kind = "class" /\ In(r)' = In(r)
       /\ \/ \E d \in Matches(r) : docs' = docs \ {d}
          \/ Matches(r) = {} /\ docs' = docs
  /\ HasClass(r)' =>
       /\ docs' = docs
       /\ \/ job[r].pc = "class" /\ job'[r].class \in docs
          \/ HasClass(r) /\ job'[r].class = job[r].class
       /\ job'[r].unlisted => /\ HasClass(r) /\ job'[r].class = job[r].class
                              /\ job[r].class.key \notin lists

\* A step of a request that was accepted before, in which no call fails.
Goes(r) ==
  /\ Running(r)
  /\ job'[r].alone => job[r].alone
  /\ job[r].quiet => job'[r].quiet
  /\ job'[r].failed => job[r].failed
  /\ NextList(r)

\* The request that moves.
LEMMA MovedTo ==
  ASSUME NEW r \in Requests, NEW j, NEW w, Move(r, j, w)
  PROVE  job'[r] = j
  BY DEF Move

\* Most steps have nothing to do with lists.
LEMMA Harmless ==
  ASSUME NEW r \in Requests, ~job'[r].unlisted,
         job'[r].pc \notin {"parent", "register", "insert", "remove", "unregister", "template", "list"}
  PROVE  NextList(r)
  BY DEF NextList, HasClass

\* A request is answered.
LEMMA AnswerGoes ==
  ASSUME CatalogueTyped, NEW r \in Requests, Program(r), Running(r), NEW ok \in BOOLEAN,
         NEW w, Answer(r, ok, w)
  PROVE  Goes(r)
<1>1. job[r] \in Jobs /\ ~job[r].unlisted
  BY JobOf DEF Program, Running
<1>2. job'[r] = [job[r] EXCEPT !.pc = "done", !.ok = ok]
  BY MovedTo DEF Answer
<1>3. job'[r].pc = "done" /\ job'[r].unlisted = job[r].unlisted /\ job'[r].alone = job[r].alone
      /\ job'[r].quiet = job[r].quiet /\ job'[r].failed = job[r].failed
  BY <1>1, <1>2 DEF Jobs
<1>4. NextList(r)
  BY <1>1, <1>3, Harmless
<1> QED
  BY <1>3, <1>4 DEF Goes

\* When the number of failed calls stays, none has failed.
LEMMA NoFault == ASSUME CatalogueTyped, UNCHANGED faults PROVE ~Fails
  BY DEF CatalogueTyped, Fails

\* The steps of a creation, as Goes has them,
LEMMA CreateGoes ==
  ASSUME CatalogueTyped, NEW r \in Requests, Program(r), UNCHANGED faults,
         Check(r) \/ Parent(r) \/ Register(r) \/ Insert(r)
  PROVE  Goes(r)
<1>j. job[r] \in Jobs /\ job[r].pc \in {"check", "parent", "register", "insert"} /\ ~Fails
      /\ Running(r) /\ ~job[r].unlisted
  BY JobOf, NoFault DEF Check, Parent, Register, Insert, At, Program, Running
<1>1. CASE Check(r)
  <2>1. CASE FreeId(r) /\ Goto(r, AfterCheck(r))
    <3>1. job'[r] = [job[r] EXCEPT !.pc = AfterCheck(r)]
      BY <2>1, MovedTo DEF Goto
    <3>2. /\ job'[r].in = job[r].in /\ job'[r].unlisted = job[r].unlisted /\ job'[r].alone = job[r].alone
          /\ job'[r].quiet = job[r].quiet /\ job'[r].failed = job[r].failed
          /\ job'[r].pc = AfterCheck(r)
      BY <1>j, <3>1 DEF Jobs
    <3>3. AfterCheck(r) \in {"parent", "register", "insert"}
          /\ (AfterCheck(r) = "insert" => In(r).mode # "listening")
      BY DEF AfterCheck
    <3>4. job[r].pc = "check" /\ docs' = docs
      BY <1>1 DEF Check, At
    <3>5. NextList(r)
      BY <1>j, <2>1, <3>2, <3>3, <3>4 DEF NextList, HasClass, In
    <3> QED
      BY <1>j, <3>2, <3>5 DEF Goes
  <2> QED
    BY <1>j, <1>1, <2>1, AnswerGoes DEF Check
<1>2. CASE Parent(r)
  <2>1. ASSUME NEW p \in Named("class", In(r).parent),
               Move(r, [job[r] EXCEPT !.in = Inherit(In(r), p),
                      !.pc = IF Inherit(In(r), p).mode = "listening" THEN "register" ELSE "insert"], FALSE)
        PROVE  Goes(r)
    <3> DEFINE in == Inherit(In(r), p)
    <3> DEFINE pc == IF in.mode = "listening" THEN "register" ELSE "insert"
    <3>i. in.key = In(r).key /\ in.kind = In(r).kind
      <4>1. In(r) \in InputSet
        BY <1>j DEF Program
      <4> QED
        BY <4>1 DEF Inherit, InputSet
    <3>p. pc \in {"register", "insert"} /\ (pc = "insert" => in.mode # "listening")
      OBVIOUS
    <3>1. job'[r] = [job[r] EXCEPT !.in = in, !.pc = pc]
      BY <2>1, MovedTo
    <3> HIDE DEF in, pc
    <3>2. /\ job'[r].in = in /\ job'[r].unlisted = job[r].unlisted /\ job'[r].alone = job[r].alone
          /\ job'[r].quiet = job[r].quiet /\ job'[r].failed = job[r].failed
          /\ job'[r].pc = pc
      BY <1>j, <3>1 DEF Jobs
    <3>4. job[r].pc = "parent" /\ docs' = docs
      BY <1>2 DEF Parent, At
    <3>5. NextList(r)
      BY <1>j, <3>i, <3>p, <3>2, <3>4 DEF NextList, HasClass, In
    <3> QED
      BY <1>j, <3>2, <3>5 DEF Goes
  <2> QED
    BY <1>j, <1>2, <2>1, AnswerGoes DEF Parent
<1>3. CASE Register(r)
  <2>1. lists' = lists \cup {In(r).key} /\ Move(r, [job[r] EXCEPT !.pc = "insert"], TRUE)
        /\ docs' = docs /\ job[r].pc = "register"
    BY <1>j, <1>3 DEF Register, At
  <2>2. job'[r] = [job[r] EXCEPT !.pc = "insert"]
    BY <2>1, MovedTo
  <2>3. /\ job'[r].in = job[r].in /\ job'[r].unlisted = job[r].unlisted /\ job'[r].alone = job[r].alone
        /\ job'[r].quiet = job[r].quiet /\ job'[r].failed = job[r].failed
        /\ job'[r].pc = "insert"
    BY <1>j, <2>2 DEF Jobs
  <2>4. NextList(r)
    BY <1>j, <2>1, <2>3 DEF NextList, HasClass, In
  <2> QED
    BY <1>j, <2>3, <2>4 DEF Goes
<1>4. CASE Insert(r)
  BY <1>j, <1>4, AnswerGoes DEF Insert
<1> QED
  BY <1>1, <1>2, <1>3, <1>4

\* those of an update, a deletion or a subscription,
LEMMA ChangeGoes ==
  ASSUME CatalogueTyped, NEW r \in Requests, Program(r), UNCHANGED faults,
         Find(r) \/ Write(r) \/ Remove(r) \/ Unregister(r) \/ GetList(r) \/ SetList(r)
  PROVE  Goes(r)
<1>j. job[r] \in Jobs /\ job[r].pc \in {"find", "write", "remove", "unregister", "get", "set"} /\ ~Fails
      /\ Running(r) /\ ~job[r].unlisted
  BY JobOf, NoFault DEF Find, Write, Remove, Unregister, GetList, SetList, At, Program, Running
<1>1. CASE Find(r)
  <2>0. job[r].pc = "find" /\ docs' = docs /\ In(r).op \in {"get", "update", "delete", "subscribe"}
    BY <1>1 DEF Find, Program
  <2>1. ASSUME NEW d \in Named(In(r).kind, In(r).key),
               Move(r, [job[r] EXCEPT !.pc = AfterFind(r, d), !.got = d], FALSE)
        PROVE  Goes(r)
    <3> DEFINE pc == AfterFind(r, d)
    <3>1. pc \in {"done", "write", "remove", "get"}
      BY <2>0 DEF AfterFind
    <3>2. job'[r] = [job[r] EXCEPT !.pc = pc, !.got = d]
      BY <2>1, MovedTo
    <3> HIDE DEF pc
    <3>3. /\ job'[r].in = job[r].in /\ job'[r].unlisted = job[r].unlisted /\ job'[r].alone = job[r].alone
          /\ job'[r].quiet = job[r].quiet /\ job'[r].failed = job[r].failed
          /\ job'[r].pc = pc /\ job'[r].got = d
      BY <1>j, <3>2 DEF Jobs
    <3>4. NextList(r)
      BY <1>j, <2>0, <3>1, <3>3 DEF NextList, HasClass, In
    <3> QED
      BY <1>j, <3>3, <3>4 DEF Goes
  <2> QED
    BY <1>j, <1>1, <2>1, AnswerGoes DEF Find
<1>2. CASE Remove(r)
  <2> DEFINE pc == AfterRemove(r)
  <2>1. pc \in {"unregister", "done"} /\ (pc = "unregister" => In(r).kind = "class")
    BY DEF AfterRemove
  <2>2. job'[r] = [job[r] EXCEPT !.pc = pc, !.ok = TRUE] /\ job[r].pc = "remove"
    BY <1>2, MovedTo DEF Remove, At
  <2> HIDE DEF pc
  <2>3. /\ job'[r].in = job[r].in /\ job'[r].unlisted = job[r].unlisted /\ job'[r].alone = job[r].alone
        /\ job'[r].quiet = job[r].quiet /\ job'[r].failed = job[r].failed
        /\ job'[r].pc = pc
    BY <1>j, <2>2 DEF Jobs
  <2>4. (\E d \in Matches(r) : docs' = docs \ {d}) \/ (Matches(r) = {} /\ docs' = docs)
    BY <1>2 DEF Remove
  <2>5. NextList(r)
    BY <1>j, <2>1, <2>2, <2>3, <2>4 DEF NextList, HasClass, In
  <2> QED
    BY <1>j, <2>3, <2>5 DEF Goes
<1>3. CASE GetList(r)
  <2>1. CASE Goto(r, "set")
    <3>1. job'[r] = [job[r] EXCEPT !.pc = "set"]
      BY <2>1, MovedTo DEF Goto
    <3>2. /\ job'[r].unlisted = job[r].unlisted /\ job'[r].alone = job[r].alone
          /\ job'[r].quiet = job[r].quiet /\ job'[r].failed = job[r].failed /\ job'[r].pc = "set"
      BY <1>j, <3>1 DEF Jobs
    <3> QED
      BY <1>j, <3>2, Harmless DEF Goes
  <2> QED
    BY <1>j, <1>3, <2>1, AnswerGoes DEF GetList
<1>4. CASE Write(r) \/ Unregister(r) \/ SetList(r)
  BY <1>j, <1>4, AnswerGoes DEF Write, Unregister, SetList
<1> QED
  BY <1>1, <1>2, <1>3, <1>4

\* and those of a message that is sent by its scene.
LEMMA SendGoes ==
  ASSUME CatalogueTyped, NEW r \in Requests, Program(r), UNCHANGED faults,
         Look(r) \/ FindClass(r) \/ FindTemplate(r) \/ ReadList(r)
  PROVE  Goes(r)
<1>j. job[r] \in Jobs /\ job[r].pc \in {"look", "class", "template", "list"} /\ ~Fails
      /\ Running(r) /\ ~job[r].unlisted /\ docs' = docs
  BY JobOf, NoFault DEF Look, FindClass, FindTemplate, ReadList, At, Program, Running
<1>1. CASE Look(r)
  <2> DEFINE pc == AfterLook(r)
  <2>1. pc \in {"class", "done"}
    BY DEF AfterLook
  <2>2. ASSUME NEW d, Move(r, [job[r] EXCEPT !.pc = pc, !.got = d], FALSE)
        PROVE  Goes(r)
    <3>1. job'[r] = [job[r] EXCEPT !.pc = pc, !.got = d]
      BY <2>2, MovedTo
    <3> HIDE DEF pc
    <3>2. /\ job'[r].unlisted = job[r].unlisted /\ job'[r].alone = job[r].alone
          /\ job'[r].quiet = job[r].quiet /\ job'[r].failed = job[r].failed /\ job'[r].pc = pc
      BY <1>j, <3>1 DEF Jobs
    <3> QED
      BY <1>j, <2>1, <3>2, Harmless DEF Goes
  <2>3. CASE Goto(r, pc)
    <3>1. job'[r] = [job[r] EXCEPT !.pc = pc]
      BY <2>3, MovedTo DEF Goto
    <3> HIDE DEF pc
    <3>2. /\ job'[r].unlisted = job[r].unlisted /\ job'[r].alone = job[r].alone
          /\ job'[r].quiet = job[r].quiet /\ job'[r].failed = job[r].failed /\ job'[r].pc = pc
      BY <1>j, <3>1 DEF Jobs
    <3> QED
      BY <1>j, <2>1, <3>2, Harmless DEF Goes
  <2> QED
    BY <1>j, <1>1, <2>2, <2>3 DEF Look
<1>2. CASE FindClass(r)
  <2>1. ASSUME NEW d \in Used(r, "class"), Move(r, [job[r] EXCEPT !.pc = "template", !.class = d], FALSE)
        PROVE  Goes(r)
    <3>1. job'[r] = [job[r] EXCEPT !.pc = "template", !.class = d] /\ job[r].pc = "class"
      BY <1>2, <2>1, MovedTo DEF FindClass, At
    <3>2. /\ job'[r].unlisted = job[r].unlisted /\ job'[r].alone = job[r].alone
          /\ job'[r].quiet = job[r].quiet /\ job'[r].failed = job[r].failed
          /\ job'[r].pc = "template" /\ job'[r].class = d
      BY <1>j, <3>1 DEF Jobs
    <3>3. d \in docs
      BY DEF Used
    <3>4. NextList(r)
      BY <1>j, <3>1, <3>2, <3>3 DEF NextList, HasClass, In
    <3> QED
      BY <1>j, <3>2, <3>4 DEF Goes
  <2> QED
    BY <1>j, <1>2, <2>1, AnswerGoes DEF FindClass
<1>3. CASE FindTemplate(r)
  <2>1. CASE Goto(r, "list")
    <3>1. job'[r] = [job[r] EXCEPT !.pc = "list"] /\ job[r].pc = "template"
      BY <1>3, <2>1, MovedTo DEF Goto, FindTemplate, At
    <3>2. /\ job'[r].unlisted = job[r].unlisted /\ job'[r].alone = job[r].alone
          /\ job'[r].quiet = job[r].quiet /\ job'[r].failed = job[r].failed
          /\ job'[r].pc = "list" /\ job'[r].class = job[r].class
      BY <1>j, <3>1 DEF Jobs
    <3>3. NextList(r)
      BY <1>j, <3>1, <3>2 DEF NextList, HasClass, In
    <3> QED
      BY <1>j, <3>2, <3>3 DEF Goes
  <2> QED
    BY <1>j, <1>3, <2>1, AnswerGoes DEF FindTemplate
<1>4. CASE ReadList(r)
  <2>1. CASE job[r].class.key \notin lists /\ Move(r, [job[r] EXCEPT !.pc = "done", !.unlisted = TRUE], FALSE)
    <3>1. job'[r] = [job[r] EXCEPT !.pc = "done", !.unlisted = TRUE] /\ job[r].pc = "list"
      BY <1>4, <2>1, MovedTo DEF ReadList, At
    <3>2. /\ job'[r].alone = job[r].alone
          /\ job'[r].quiet = job[r].quiet /\ job'[r].failed = job[r].failed
          /\ job'[r].pc = "done" /\ job'[r].class = job[r].class
      BY <1>j, <3>1 DEF Jobs
    <3>3. NextList(r)
      BY <1>j, <2>1, <3>1, <3>2 DEF NextList, HasClass, In
    <3> QED
      BY <1>j, <3>2, <3>3 DEF Goes
  <2> QED
    BY <1>j, <1>4, <2>1, AnswerGoes DEF ReadList
<1> QED
  BY <1>1, <1>2, <1>3, <1>4

\* A step of a copy.
LEMMA CopyGoes ==
  ASSUME CatalogueTyped, NEW r \in Requests, Program(r), UNCHANGED faults,
         \/ CopyClear(r) \/ CopyExisting(r) \/ CopyRead(r)
         \/ CopyAdd(r) \/ CopyAddFails(r) \/ CopyWipe(r)
  PROVE  Goes(r)
<1>j. job[r] \in Jobs /\ job[r].pc \in {"clear", "existing", "read", "add", "wipe"} /\ ~Fails
      /\ Running(r) /\ ~job[r].unlisted
  BY JobOf, NoFault DEF CopyClear, CopyExisting, CopyRead, CopyAdd, CopyAddFails, CopyWipe, At,
     Program, Running
<1>1. ASSUME NEW j \in Jobs, j = job'[r], j.unlisted = job[r].unlisted, j.alone => job[r].alone,
             job[r].quiet => j.quiet, j.failed => job[r].failed,
             j.pc \in {"clear", "existing", "read", "add", "wipe", "done"}
      PROVE  Goes(r)
  <2>1. NextList(r)
    BY <1>j, <1>1, Harmless
  <2> QED
    BY <1>j, <1>1, <2>1 DEF Goes
<1>2. ASSUME NEW pc, NEW next \in {"read", "add", "done"}, NEW n, n = NextAt(r, pc, next)
      PROVE  /\ n \in Jobs /\ n.unlisted = job[r].unlisted /\ n.alone = job[r].alone
             /\ n.quiet = job[r].quiet /\ n.failed = job[r].failed
             /\ n.pc \in {job[r].pc, next}
  <2>1. next \in Pcs
    BY DEF Pcs
  <2>2. /\ n \in Jobs /\ n.unlisted = job[r].unlisted
        /\ n.quiet = job[r].quiet /\ n.failed = job[r].failed
        /\ n.pc \in {job[r].pc, next}
    BY <2>1, <1>2, NextAtFields
  <2>3. n.alone = job[r].alone
    BY <1>j, <1>2 DEF NextAt, Jobs
  <2> QED
    BY <2>2, <2>3
<1>3. CASE CopyClear(r) \/ CopyWipe(r)
  <2>2. CASE CopyClear(r)
    <3>1. job'[r] = NextAt(r, "clear", "read")
      BY <1>j, <2>2, MovedTo DEF CopyClear
    <3> QED
      BY <1>j, <1>1, <1>2, <3>1
  <2>3. CASE CopyWipe(r)
    <3>1. job'[r] = NextAt(r, "wipe", "done")
      BY <1>j, <2>3, MovedTo DEF CopyWipe
    <3> QED
      BY <1>j, <1>1, <1>2, <3>1
  <2> QED
    BY <1>3, <2>2, <2>3
<1>4. ASSUME CopyExisting(r)
      PROVE  Goes(r)
  <2>1. PICK n, have : n = NextAt(r, "existing", "read") /\ job'[r] = [n EXCEPT !.have = have]
    <3> DEFINE k == Collection(job[r].at)
               m == NextAt(r, "existing", "read")
    <3>1. Move(r, [m EXCEPT !.have = @ \cup {<<k, d.key>> : d \in Of(k, In(r).app)}], FALSE)
      BY <1>j, <1>4 DEF CopyExisting
    <3>2. job'[r] = [m EXCEPT !.have = @ \cup {<<k, d.key>> : d \in Of(k, In(r).app)}]
      BY <3>1, MovedTo
    <3>3. job'[r] = [m EXCEPT !.have = m.have \cup {<<k, d.key>> : d \in Of(k, In(r).app)}]
      BY <3>2
    <3> QED
      BY <3>3
  <2>2. /\ n \in Jobs /\ n.unlisted = job[r].unlisted /\ n.alone = job[r].alone
        /\ n.quiet = job[r].quiet /\ n.failed = job[r].failed /\ n.pc \in {job[r].pc, "read"}
    BY <1>2, <2>1
  <2>3. /\ job'[r].unlisted = n.unlisted /\ job'[r].alone = n.alone
        /\ job'[r].quiet = n.quiet /\ job'[r].failed = n.failed /\ job'[r].pc = n.pc
    BY <2>1, <2>2 DEF Jobs
  <2>4. NextList(r)
    BY <1>j, <2>2, <2>3, Harmless
  <2> QED
    BY <1>j, <2>2, <2>3, <2>4 DEF Goes
<1>5. ASSUME CopyRead(r)
      PROVE  Goes(r)
  <2>1. PICK n, todo : n = NextAt(r, "read", "add") /\ job'[r] = [n EXCEPT !.todo = todo]
    <3> DEFINE k == Collection(job[r].at)
               m == NextAt(r, "read", "add")
    <3>1. Move(r, [m EXCEPT !.todo = @ \cup {d \in Of(k, In(r).from) : ~Skipped(r, k, d)}], FALSE)
      BY <1>j, <1>5 DEF CopyRead
    <3>2. job'[r] = [m EXCEPT !.todo = @ \cup {d \in Of(k, In(r).from) : ~Skipped(r, k, d)}]
      BY <3>1, MovedTo
    <3>3. job'[r] = [m EXCEPT !.todo = m.todo \cup {d \in Of(k, In(r).from) : ~Skipped(r, k, d)}]
      BY <3>2
    <3> QED
      BY <3>3
  <2>2. /\ n \in Jobs /\ n.unlisted = job[r].unlisted /\ n.alone = job[r].alone
        /\ n.quiet = job[r].quiet /\ n.failed = job[r].failed /\ n.pc \in {job[r].pc, "add"}
    BY <1>2, <2>1
  <2>3. /\ job'[r].unlisted = n.unlisted /\ job'[r].alone = n.alone
        /\ job'[r].quiet = n.quiet /\ job'[r].failed = n.failed /\ job'[r].pc = n.pc
    BY <2>1, <2>2 DEF Jobs
  <2>4. NextList(r)
    BY <1>j, <2>2, <2>3, Harmless
  <2> QED
    BY <1>j, <2>2, <2>3, <2>4 DEF Goes
<1>6. ASSUME CopyAdd(r)
      PROVE  Goes(r)
  <2>1. PICK n, ok : n = NextAt(r, "add", "done") /\ job'[r] = [n EXCEPT !.ok = ok]
    <3> DEFINE m == NextAt(r, "add", "done")
               w == Fresh(r, Batch(r)) # {}
    <3>1. Move(r, [m EXCEPT !.ok = (m.pc = "done")], w)
      BY <1>6 DEF CopyAdd
    <3>2. job'[r] = [m EXCEPT !.ok = (m.pc = "done")]
      BY <3>1, MovedTo
    <3> QED
      BY <3>2
  <2>2. /\ n \in Jobs /\ n.unlisted = job[r].unlisted /\ n.alone = job[r].alone
        /\ n.quiet = job[r].quiet /\ n.failed = job[r].failed /\ n.pc \in {job[r].pc, "done"}
    BY <1>2, <2>1
  <2>3. /\ job'[r].unlisted = n.unlisted /\ job'[r].alone = n.alone
        /\ job'[r].quiet = n.quiet /\ job'[r].failed = n.failed /\ job'[r].pc = n.pc
    BY <2>1, <2>2 DEF Jobs
  <2>4. NextList(r)
    BY <1>j, <2>2, <2>3, Harmless
  <2> QED
    BY <1>j, <2>2, <2>3, <2>4 DEF Goes
<1>7. ASSUME CopyAddFails(r)
      PROVE  Goes(r)
  <2>1. PICK f : /\ job'[r] = [job[r] EXCEPT !.pc = "wipe", !.at = 1, !.failed = f]
                 /\ f => job[r].failed
    <3>1. Move(r, [job[r] EXCEPT !.pc = "wipe", !.at = 1, !.failed = @ \/ faults' > faults], TRUE)
      BY <1>7 DEF CopyAddFails
    <3>2. job'[r] = [job[r] EXCEPT !.pc = "wipe", !.at = 1, !.failed = @ \/ faults' > faults]
      BY <3>1, MovedTo
    <3>3. job'[r] = [job[r] EXCEPT !.pc = "wipe", !.at = 1, !.failed = job[r].failed \/ faults' > faults]
      BY <3>2
    <3>4. ~(faults' > faults)
      BY DEF CatalogueTyped
    <3> QED
      BY <3>3, <3>4
  <2>2. /\ job'[r].unlisted = job[r].unlisted /\ job'[r].alone = job[r].alone
        /\ job'[r].quiet = job[r].quiet /\ job'[r].failed = f /\ job'[r].pc = "wipe"
    BY <1>j, <2>1 DEF Jobs
  <2>3. NextList(r)
    BY <1>j, <2>2, Harmless
  <2> QED
    BY <1>j, <2>1, <2>2, <2>3 DEF Goes
<1> QED
  BY <1>3, <1>4, <1>5, <1>6, <1>7

\* A step in which no call fails.
LEMMA StepGoes ==
  ASSUME CatalogueTyped, NEW r \in Requests, Own(r), CatalogueStep(r), UNCHANGED faults
  PROVE  Begun(r) \/ Goes(r)
<1>0. Program(r) /\ ~Fails
  BY NoFault DEF Own
<1>1. CASE Handlers(r)
  BY <1>1, AcceptsOwn
<1>2. CASE Check(r) \/ Parent(r) \/ Register(r) \/ Insert(r)
  BY <1>0, <1>2, CreateGoes
<1>3. CASE Find(r) \/ Write(r) \/ Remove(r) \/ Unregister(r) \/ GetList(r) \/ SetList(r)
  BY <1>0, <1>3, ChangeGoes
<1>4. CASE RemoveFails(r)
  BY <1>0, <1>4 DEF RemoveFails
<1>5. CASE Look(r) \/ FindClass(r) \/ FindTemplate(r) \/ ReadList(r)
  BY <1>0, <1>5, SendGoes
<1>6. CASE CopyClear(r) \/ CopyExisting(r) \/ CopyRead(r) \/ CopyAdd(r) \/ CopyAddFails(r) \/ CopyWipe(r)
  BY <1>0, <1>6, CopyGoes
<1> QED
  BY <1>1, <1>2, <1>3, <1>4, <1>5, <1>6 DEF CatalogueStep

\* The lists of classes are only ever shortened by the end of a deletion.
LEMMA StepLists ==
  ASSUME NEW r \in Requests, CatalogueStep(r)
  PROVE  lists \subseteq lists' \/ (job[r].pc = "unregister" /\ lists' = lists \ {In(r).key} /\ docs' = docs)
<1>1. CASE Handlers(r)
  BY <1>1 DEF Handlers, CreateConfiguration, UpdateConfiguration, DeleteConfiguration, GetConfiguration,
     AddConfiguration, CreateTemplate, UpdateTemplate, DeleteTemplate, GetTemplate, CreateScene,
     UpdateScene, DeleteScene, GetScene, CreateSceneRelation, UpdateSceneRelation, DeleteSceneRelation,
     GetSceneRelation, CopySceneRelation, SendMessageByScene, Accepts
<1>2. CASE Check(r) \/ Parent(r) \/ Find(r) \/ RemoveFails(r) \/ Look(r) \/ FindClass(r)
           \/ FindTemplate(r) \/ ReadList(r) \/ GetList(r) \/ Insert(r) \/ Write(r) \/ Remove(r)
  BY <1>2 DEF Check, Parent, Find, RemoveFails, Look, FindClass, FindTemplate, ReadList, GetList,
     Insert, Write, Remove
<1>3. CASE Register(r) \/ Unregister(r) \/ SetList(r)
  BY <1>3 DEF Register, Unregister, SetList, At
<1>4. CASE CopyClear(r) \/ CopyExisting(r) \/ CopyRead(r) \/ CopyAdd(r) \/ CopyAddFails(r) \/ CopyWipe(r)
  BY <1>4 DEF CopyClear, CopyExisting, CopyRead, CopyAdd, CopyAddFails, CopyWipe
<1> QED
  BY <1>1, <1>2, <1>3, <1>4 DEF CatalogueStep

\* While a request that is alone runs, no other does.
Alone(r) ==
  job[r].alone /\ Running(r) => job[r].quiet /\ \A q \in Requests \ {r} : ~Running(q)

Unique ==
  \A d, e \in docs : Rooted(d) => Len(d.key) = 1 /\ (e.kind = "class" /\ e.key = d.key => e = d)

Elsewhere(r) == \A d \in docs : Rooted(d) => d.key # In(r).key

Creating(r) ==
  /\ job[r].pc \in {"parent", "register", "insert"} /\ In(r).kind = "class" => Elsewhere(r)
  /\ job[r].pc = "insert" /\ In(r).kind = "class" /\ In(r).mode = "listening" /\ job[r].alone
       => In(r).key \in lists

Deleting(r) ==
  /\ job[r].pc = "remove" /\ In(r).kind = "class" =>
       \A d \in docs : Rooted(d) /\ d.key = In(r).key => job[r].got.id = d.id
  /\ job[r].pc = "unregister" => Elsewhere(r)

\* A class that was read before is, if it is still there, the same.
Snapshot(r) ==
  /\ job[r].class.id < serial
  /\ \A d \in docs : d.id = job[r].class.id =>
       d.key = job[r].class.key /\ (Rooted(d) <=> Rooted(job[r].class))

InLists(c) ==
  ~c.edited /\ c.mode = "listening" => \A d \in docs : Rooted(d) /\ d.id = c.id => d.key \in lists

Unlisted(r) ==
  job[r].unlisted /\ Rooted(job[r].class) /\ ~job[r].class.edited
    => \A d \in docs : d.id # job[r].class.id

\* As long as no call has failed.
ListsKept ==
  faults = 0 =>
    /\ Unique
    /\ \A d \in docs : InLists(d)
    /\ \A r \in Requests :
         /\ ~job[r].failed /\ Alone(r) /\ Creating(r) /\ Deleting(r) /\ Unlisted(r)
         /\ HasClass(r) => Snapshot(r) /\ InLists(job[r].class)

\* Where the documents come from.
LEMMA Origin ==
  ASSUME CatalogueTyped, Numbered, NEW r \in Requests, Own(r), DocsStep(r)
  PROVE  /\ serial' >= serial
         /\ \A d \in docs' :
              \/ \E e \in docs : /\ e.id = d.id /\ e.key = d.key /\ e.kind = d.kind
                                 /\ Rooted(e) <=> Rooted(d)
                                 /\ d.edited \/ d = e
              \/ d.id >= serial /\ job[r].pc = "insert" /\ d = NewDoc(r)
              \/ d.id >= serial /\ ~Rooted(d) /\ (d.kind = "class" => Len(d.key) # 1)
<1>0. serial \in Nat /\ docs \subseteq DocumentSet
  BY DEF CatalogueTyped
<1>1. CASE docs' \subseteq docs /\ serial' = serial
  BY <1>0, <1>1
<1>2. ASSUME job[r].pc = "write", serial' = serial, NEW x \in Matches(r), docs' = Written(x, r)
      PROVE  /\ serial' >= serial
             /\ \A d \in docs' : \E e \in docs : /\ e.id = d.id /\ e.key = d.key /\ e.kind = d.kind
                                                 /\ Rooted(e) <=> Rooted(d)
                                                 /\ d.edited \/ d = e
  <2>1. x \in docs /\ (x.kind \in Checked => In(r).kind \in Checked)
    BY DEF Matches, Named
  <2>2. PICK y : y = Edit(x, r)
    OBVIOUS
  <2>3. y.id = x.id /\ y.kind = x.kind /\ y.key = x.key /\ y.by = x.by /\ y.alone = x.alone
        /\ y.edited = TRUE
    BY <1>2, <2>1, <2>2, EditFields
  <2>4. Rooted(x) <=> Rooted(y)
    BY <2>3 DEF Rooted
  <2>5. docs' = (docs \ {x}) \cup {y}
    BY <1>2, <2>2 DEF Written
  <2> QED
    BY <1>0, <1>2, <2>1, <2>3, <2>4, <2>5
<1>3. CASE job[r].pc = "insert" /\ docs' = docs \cup {NewDoc(r)} /\ serial' = serial + 1
  <2>1. NewDoc(r).id = serial
    BY <1>3, NewDocFields
  <2> QED
    BY <1>0, <1>3, <2>1
<1>4. ASSUME job[r].pc = "add", NEW ds \in SUBSET Batch(r), docs' = docs \cup Fresh(r, ds),
             serial' = serial + Cardinality(Fresh(r, ds))
      PROVE  /\ serial' >= serial
             /\ \A d \in docs' :
                  d \in docs \/ (d.id >= serial /\ ~Rooted(d) /\ (d.kind = "class" => Len(d.key) # 1))
  <2>1. PICK new : new = Fresh(r, ds)
    OBVIOUS
  <2>2. /\ new \subseteq DocumentSet /\ Cardinality(new) \in Nat
        /\ \A c \in new : /\ c.kind = Collection(job[r].at) /\ c.by = "copy" /\ serial <= c.id
                          /\ \E x \in ds : c.key = CopyKey(x, In(r).app)
    BY <1>4, <2>1, BatchFacts
  <2>3. ASSUME NEW c \in new
        PROVE  c.id >= serial /\ ~Rooted(c) /\ (c.kind = "class" => Len(c.key) # 1)
    <3>1. c.id >= serial /\ ~Rooted(c)
      BY <1>0, <2>2 DEF Rooted, DocumentSet
    <3>2. PICK x \in ds : c.key = CopyKey(x, In(r).app)
      BY <2>2
    <3>3. x.kind = c.kind /\ x \in DocumentSet
      BY <2>2, JobOf DEF Batch, Jobs
    <3>4. In(r).app \in AppIds
      BY <1>4 DEF Own, Program
    <3>5. c.kind = "class" => c.key = Append(x.key, In(r).app)
      BY <3>2, <3>3 DEF CopyKey
    <3>6. x.key \in Seq(Names \cup AppIds) /\ x.key # <<>>
      BY <3>3 DEF DocumentSet, Keys
    <3>7. Len(Append(x.key, In(r).app)) # 1
      BY <3>4, <3>6
    <3> QED
      BY <3>1, <3>5, <3>7
  <2> QED
    BY <1>0, <1>4, <2>1, <2>2, <2>3
<1> QED
  BY <1>1, <1>2, <1>3, <1>4 DEF DocsStep

\* The parts of ListsKept, a step of r at a time.
ListsContext(r) ==
  /\ CopyInv /\ CopyInv' /\ ListsKept /\ faults = 0 /\ faults' = 0
  /\ CatalogueStep(r)

\* What follows from the context at once.
LEMMA ContextFacts ==
  ASSUME NEW r \in Requests, ListsContext(r)
  PROVE  /\ CatalogueTyped /\ Numbered /\ Own(r) /\ Numbered' /\ CatalogueTyped'
         /\ \A q \in Requests : Program(q)'
         /\ Result(r) /\ DocsStep(r) /\ (Begun(r) \/ Goes(r))
         /\ Unique /\ \A d \in docs : InLists(d)
         /\ \A q \in Requests :
              /\ ~job[q].failed /\ Alone(q) /\ Creating(q) /\ Deleting(q) /\ Unlisted(q)
              /\ HasClass(q) => Snapshot(q) /\ InLists(job[q].class)
         /\ \A q \in Requests \ {r} : Running(q)' <=> Running(q)
<1>1. CatalogueTyped /\ Numbered /\ Own(r) /\ Numbered' /\ CatalogueTyped' /\ \A q \in Requests : Program(q)'
  BY DEF ListsContext, CopyInv, Own
<1>2. Result(r) /\ DocsStep(r) /\ (Begun(r) \/ Goes(r))
  BY <1>1, StepOwn, StepDocs, StepGoes DEF ListsContext
<1>3. \A q \in Requests \ {r} : Running(q)' <=> Running(q)
  BY <1>2 DEF Result, Frame, Running
<1> QED
  BY <1>1, <1>2, <1>3 DEF ListsContext, ListsKept

\* While another request runs, no class is created alone.
LEMMA NoNewRoot ==
  ASSUME NEW r \in Requests, ListsContext(r), NEW q \in Requests \ {r}, Running(q),
         NEW d \in docs', Rooted(d)
  PROVE  \E e \in docs : Rooted(e) /\ e.id = d.id /\ e.key = d.key
<1>1. CASE job[r].pc = "insert" /\ d = NewDoc(r)
  <2>1. ~job[r].alone
    BY <1>1, ContextFacts DEF Alone, Running
  <2>2. d.alone = job[r].alone
    BY <1>1, ContextFacts, NewDocFields
  <2> QED
    BY <2>1, <2>2 DEF Rooted
<1> QED
  BY <1>1, ContextFacts, Origin

\* A class created alone keeps its list, if it has one.
LEMMA RootKeepsList ==
  ASSUME NEW r \in Requests, ListsContext(r), NEW d \in docs, Rooted(d), d.key \in lists
  PROVE  d.key \in lists'
<1>1. CASE lists \subseteq lists'
  BY <1>1
<1>2. CASE job[r].pc = "unregister" /\ lists' = lists \ {In(r).key}
  BY <1>2, ContextFacts DEF Deleting, Elsewhere
<1> QED
  BY <1>1, <1>2, StepLists DEF ListsContext

\* An id of a class created alone is not given again.
LEMMA UniqueStep ==
  ASSUME NEW r \in Requests, ListsContext(r)
  PROVE  Unique'
<1> SUFFICES ASSUME NEW d \in docs', NEW e \in docs', Rooted(d)
             PROVE  Len(d.key) = 1 /\ (e.kind = "class" /\ e.key = d.key => e = d)
  BY DEF Unique, Rooted
<1>0. Unique /\ \A x, y \in docs' : x.id = y.id => x = y
  BY ContextFacts DEF Numbered
<1>i. job[r].pc = "insert" => /\ NewDoc(r).kind = In(r).kind /\ NewDoc(r).key = In(r).key
                              /\ NewDoc(r).alone = job[r].alone
                              /\ Len(In(r).key) = 1
  BY ContextFacts, NewDocFields DEF Own, Program
<1>1. ASSUME NEW f \in docs, Rooted(f), f.id = d.id, f.key = d.key
      PROVE  Len(d.key) = 1 /\ (e.kind = "class" /\ e.key = d.key => e = d)
  <2>1. Len(d.key) = 1
    BY <1>0, <1>1 DEF Unique
  <2>2. ASSUME e.kind = "class", e.key = d.key
        PROVE  e = d
    <3>1. ASSUME NEW g \in docs, g.id = e.id, g.key = e.key, g.kind = e.kind
          PROVE  e = d
      BY <1>0, <1>1, <2>2, <3>1 DEF Unique
    <3>2. CASE job[r].pc = "insert" /\ e = NewDoc(r)
      <4>1. Elsewhere(r)
        BY <1>i, <2>2, <3>2, ContextFacts DEF Creating
      <4> QED
        BY <1>i, <1>1, <2>2, <3>2, <4>1 DEF Elsewhere
    <3>3. Len(e.key) = 1
      BY <2>1, <2>2
    <3> QED
      BY <2>2, <3>1, <3>2, <3>3, ContextFacts, Origin
  <2> QED
    BY <2>1, <2>2
<1>2. CASE job[r].pc = "insert" /\ d = NewDoc(r)
  <2>1. In(r).kind = "class" /\ job[r].alone /\ d.key = In(r).key /\ Len(d.key) = 1
    BY <1>2, <1>i DEF Rooted
  <2>2. job[r].quiet /\ ~job[r].failed
    BY <1>2, <2>1, ContextFacts DEF Alone, Running
  <2>3. FreeId(r)
    BY <1>2, <2>1, <2>2, ContextFacts DEF Own, CheckedFree, Checked
  <2>4. ASSUME e.kind = "class", e.key = d.key
        PROVE  e = d
    <3>1. ASSUME NEW g \in docs, g.key = e.key, g.kind = e.kind
          PROVE  FALSE
      BY <2>1, <2>3, <2>4, <3>1 DEF FreeId, Named
    <3>2. Len(e.key) = 1
      BY <2>1, <2>4
    <3> QED
      BY <1>2, <2>4, <3>1, <3>2, ContextFacts, Origin
  <2> QED
    BY <2>1, <2>4
<1> QED
  BY <1>1, <1>2, ContextFacts, Origin

\* Listening classes keep their lists.
LEMMA InListsStep ==
  ASSUME NEW r \in Requests, ListsContext(r)
  PROVE  \A d \in docs' : InLists(d)'
<1> SUFFICES ASSUME NEW d \in docs', ~d.edited, d.mode = "listening",
                    NEW c \in docs', Rooted(c), c.id = d.id
             PROVE  c.key \in lists'
  BY DEF InLists, Rooted
<1>1. c = d
  BY ContextFacts DEF Numbered
<1>2. CASE d \in docs
  <2>1. d.key \in lists
    BY <1>1, <1>2, ContextFacts DEF InLists
  <2> QED
    BY <1>1, <1>2, <2>1, RootKeepsList
<1>3. CASE job[r].pc = "insert" /\ d = NewDoc(r)
  <2>1. d.kind = In(r).kind /\ d.key = In(r).key /\ d.mode = In(r).mode /\ d.alone = job[r].alone
    BY <1>3, ContextFacts, NewDocFields
  <2>2. In(r).key \in lists
    BY <1>1, <1>3, <2>1, ContextFacts DEF Creating, Rooted
  <2>3. lists \subseteq lists'
    BY <1>3, StepLists DEF ListsContext
  <2> QED
    BY <1>1, <2>1, <2>2, <2>3
<1> QED
  BY <1>1, <1>2, <1>3, ContextFacts, Origin

\* Who is alone stays so, or no longer counts as alone.
LEMMA AloneStep ==
  ASSUME NEW r \in Requests, ListsContext(r), NEW q \in Requests
  PROVE  ~job'[q].failed /\ Alone(q)'
<1>1. CASE q = r
  <2>1. CASE Begun(r)
    BY <1>1, <2>1, ContextFacts DEF Begun, Alone
  <2>2. CASE Goes(r)
    BY <1>1, <2>2, ContextFacts DEF Goes, Alone
  <2> QED
    BY <2>1, <2>2, ContextFacts
<1>2. CASE q # r
  <2>1. ~job'[q].failed /\ (job'[q].alone => job[q].alone) /\ (Running(q)' <=> Running(q))
    BY <1>2, ContextFacts DEF Result, Frame
  <2>2. ~(job'[q].alone /\ Running(q)')
    BY <1>2, <2>1, ContextFacts DEF Begun, Goes, Alone
  <2> QED
    BY <2>1, <2>2 DEF Alone
<1> QED
  BY <1>1, <1>2

\* A class that is being created has an id of its own, and its list.
LEMMA CreatingStep ==
  ASSUME NEW r \in Requests, ListsContext(r), NEW q \in Requests
  PROVE  Creating(q)'
<1>1. CASE q = r
  <2>1. CASE Begun(r)
    BY <1>1, <2>1 DEF Begun, Creating, Checked
  <2>2. ASSUME Goes(r), job'[r].pc \in {"parent", "register", "insert"}, In(r)'.kind = "class"
        PROVE  Creating(r)'
    <3>1. /\ docs' = docs /\ In(r)'.key = In(r).key /\ In(r).kind = "class"
          /\ \/ job[r].pc = "check" /\ FreeId(r)
             \/ job[r].pc \in {"parent", "register"}
          /\ job'[r].pc = "insert" /\ In(r)'.mode = "listening" => In(r).key \in lists'
      BY <2>2 DEF Goes, NextList
    <3>2. Elsewhere(r)
      <4>1. CASE FreeId(r)
        BY <3>1, <4>1 DEF FreeId, Named, Elsewhere, Rooted
      <4>2. CASE job[r].pc \in {"parent", "register"}
        BY <3>1, <4>2, ContextFacts DEF Creating
      <4> QED
        BY <3>1, <4>1, <4>2
    <3>3. Elsewhere(r)'
      BY <3>1, <3>2 DEF Elsewhere, Rooted
    <3> QED
      BY <3>1, <3>3 DEF Creating
  <2> QED
    BY <1>1, <2>1, <2>2, ContextFacts DEF Creating
<1>2. CASE q # r
  <2>1. /\ job'[q].pc = job[q].pc /\ In(q)' = In(q) /\ (job'[q].alone => job[q].alone)
    BY <1>2, ContextFacts DEF Result, Frame, In
  <2>2. ASSUME job[q].pc \in {"parent", "register", "insert"}, In(q).kind = "class"
        PROVE  Creating(q)'
    <3>1. Running(q)
      BY <2>2 DEF Running
    <3>2. Elsewhere(q)
      BY <2>2, ContextFacts DEF Creating
    <3>3. Elsewhere(q)'
      BY <1>2, <2>1, <3>1, <3>2, NoNewRoot DEF Elsewhere, Rooted
    <3>4. ~job'[q].alone
      BY <1>2, <2>1, <3>1, ContextFacts DEF Begun, Goes, Alone
    <3> QED
      BY <3>3, <3>4 DEF Creating
  <2> QED
    BY <2>1, <2>2 DEF Creating
<1> QED
  BY <1>1, <1>2

\* A class that is being deleted is the one with its id.
LEMMA DeletingStep ==
  ASSUME NEW r \in Requests, ListsContext(r), NEW q \in Requests
  PROVE  Deleting(q)'
<1>1. CASE q = r
  <2>1. CASE Begun(r)
    BY <1>1, <2>1 DEF Begun, Deleting, Checked
  <2>2. ASSUME Goes(r), job'[r].pc = "remove", In(r)'.kind = "class"
        PROVE  Deleting(r)'
    <3>1. docs' = docs /\ In(r)' = In(r) /\ job'[r].got \in Named("class", In(r).key)
      BY <2>2 DEF Goes, NextList
    <3>2. ASSUME NEW d \in docs, Rooted(d), d.key = In(r).key
          PROVE  job'[r].got.id = d.id
      BY <3>1, <3>2, ContextFacts DEF Unique, Named
    <3> QED
      BY <2>2, <3>1, <3>2 DEF Deleting, Rooted
  <2>3. ASSUME Goes(r), job'[r].pc = "unregister"
        PROVE  Deleting(r)'
    <3>1. /\ job[r].pc = "remove" /\ In(r).kind = "class" /\ In(r)' = In(r)
          /\ \/ \E d \in Matches(r) : docs' = docs \ {d}
             \/ Matches(r) = {} /\ docs' = docs
      BY <2>3 DEF Goes, NextList
    <3>2. Matches(r) = {d \in docs : d.id = job[r].got.id}
      BY <3>1 DEF Matches, Checked
    <3>3. \A d \in docs : Rooted(d) /\ d.key = In(r).key => d \in Matches(r)
      BY <3>1, <3>2, ContextFacts DEF Deleting
    <3>4. \A d, e \in Matches(r) : d = e
      BY <3>2, ContextFacts DEF Numbered
    <3>5. Elsewhere(r)'
      BY <3>1, <3>3, <3>4 DEF Elsewhere, Rooted
    <3> QED
      BY <2>3, <3>5 DEF Deleting
  <2> QED
    BY <1>1, <2>1, <2>2, <2>3, ContextFacts DEF Deleting
<1>2. CASE q # r
  <2>1. job'[q].pc = job[q].pc /\ In(q)' = In(q) /\ job'[q].got = job[q].got
    BY <1>2, ContextFacts DEF Result, Frame, In
  <2>2. ASSUME job[q].pc \in {"remove", "unregister"}
        PROVE  \A d \in docs' : Rooted(d) => \E e \in docs : Rooted(e) /\ e.id = d.id /\ e.key = d.key
    <3>1. Running(q)
      BY <2>2 DEF Running
    <3> QED
      BY <1>2, <3>1, NoNewRoot
  <2>3. Deleting(q)
    BY ContextFacts
  <2>4. CASE job[q].pc = "remove"
    BY <2>1, <2>2, <2>3, <2>4 DEF Deleting, Rooted
  <2>5. CASE job[q].pc = "unregister"
    BY <2>1, <2>2, <2>3, <2>5 DEF Deleting, Elsewhere, Rooted
  <2> QED
    BY <2>1, <2>4, <2>5 DEF Deleting
<1> QED
  BY <1>1, <1>2

\* A class that was read before.
LEMMA SnapshotKept ==
  ASSUME NEW r \in Requests, ListsContext(r), NEW q \in Requests, HasClass(q),
         job'[q].class = job[q].class, job[q].class \in DocumentSet
  PROVE  Snapshot(q)' /\ InLists(job[q].class)'
<1>1. Snapshot(q) /\ InLists(job[q].class)
  BY ContextFacts
<1>0. job[q].class.id \in Nat /\ serial \in Nat /\ serial' \in Nat
  BY ContextFacts DEF CatalogueTyped, DocumentSet
<1>2. serial' >= serial
  BY ContextFacts, Origin
<1>3. \A d \in docs' : d.id \in Nat
  BY ContextFacts DEF CatalogueTyped, DocumentSet
<1>4. ASSUME NEW d \in docs', d.id = job[q].class.id
      PROVE  \E e \in docs : e.id = d.id /\ e.key = d.key /\ (Rooted(e) <=> Rooted(d))
  <2>1. ~(d.id >= serial)
    BY <1>0, <1>1, <1>4 DEF Snapshot
  <2> QED
    BY <2>1, ContextFacts, Origin
<1>5. Snapshot(q)'
  <2>1. job[q].class.id < serial'
    BY <1>0, <1>1, <1>2 DEF Snapshot
  <2>2. ASSUME NEW d \in docs', d.id = job[q].class.id
        PROVE  d.key = job[q].class.key /\ (Rooted(d) <=> Rooted(job[q].class))
    BY <1>1, <1>4, <2>2 DEF Snapshot
  <2> QED
    BY <2>1, <2>2 DEF Snapshot, Rooted
<1>6. ASSUME ~job[q].class.edited, job[q].class.mode = "listening",
             NEW d \in docs', Rooted(d), d.id = job[q].class.id
      PROVE  d.key \in lists'
  <2>1. PICK e \in docs : e.id = d.id /\ e.key = d.key /\ (Rooted(e) <=> Rooted(d))
    BY <1>4, <1>6
  <2>2. e.key \in lists
    BY <1>1, <1>6, <2>1 DEF InLists
  <2> QED
    BY <1>6, <2>1, <2>2, RootKeepsList
<1> QED
  BY <1>5, <1>6 DEF InLists, Rooted

\* A class that a request holds after a step.
LEMMA HeldStep ==
  ASSUME NEW r \in Requests, ListsContext(r), NEW q \in Requests, HasClass(q)'
  PROVE  Snapshot(q)' /\ InLists(job[q].class)'
<1>1. ASSUME HasClass(q), job'[q].class = job[q].class
      PROVE  Snapshot(q)' /\ InLists(job[q].class)'
  <2>1. job[q].class \in DocumentSet
    BY <1>1, ContextFacts DEF ListsContext, CopyInv, Own, Program, HasClass
  <2>2. Snapshot(q)' /\ InLists(job[q].class)'
    BY <1>1, <2>1, SnapshotKept
  <2> QED
    BY <1>1, <2>2 DEF InLists
<1>2. CASE q = r
  <2>1. ~Begun(r)
    BY <1>2 DEF Begun, HasClass
  <2>2. /\ docs' = docs
        /\ \/ job'[r].class \in docs
           \/ HasClass(r) /\ job'[r].class = job[r].class
    BY <1>2, <2>1, ContextFacts DEF Goes, NextList
  <2>3. CASE job'[r].class \in docs
    <3>0. job'[r].class \in docs'
      BY <2>2, <2>3
    <3>1. job'[r].class.id < serial' /\ \A d \in docs' : d.id = job'[r].class.id => d = job'[r].class
      <4>1. serial' \in Nat /\ job'[r].class.id \in 1 .. (serial' - 1)
        BY <3>0, ContextFacts DEF Numbered, CatalogueTyped
      <4>2. \A d \in docs' : d.id = job'[r].class.id => d = job'[r].class
        BY <3>0, ContextFacts DEF Numbered
      <4> QED
        BY <4>1, <4>2
    <3>2. Snapshot(r)'
      BY <3>1 DEF Snapshot, Rooted
    <3>3. PICK c \in docs' : c = job'[r].class
      BY <2>2, <2>3
    <3>4. InLists(c)'
      BY <3>3, InListsStep
    <3>5. InLists(job[r].class)'
      BY <3>3, <3>4 DEF InLists
    <3> QED
      BY <1>2, <3>2, <3>5
  <2> QED
    BY <1>1, <1>2, <2>2, <2>3
<1>3. CASE q # r
  <2>1. HasClass(q) /\ job'[q].class = job[q].class
    BY <1>3, ContextFacts DEF Result, Frame, HasClass
  <2> QED
    BY <1>1, <2>1
<1> QED
  BY <1>2, <1>3

\* Who missed the list of a class has a class that is no longer there.
LEMMA UnlistedStep ==
  ASSUME NEW r \in Requests, ListsContext(r), NEW q \in Requests
  PROVE  Unlisted(q)'
<1> SUFFICES ASSUME job'[q].unlisted, Rooted(job'[q].class), ~job'[q].class.edited,
                    NEW d \in docs', d.id = job'[q].class.id
             PROVE  FALSE
  BY DEF Unlisted, Rooted
<1>0. HasClass(q)' /\ job'[q].class.mode = "listening"
  BY ContextFacts DEF HasClass, Program
<1>1. CASE q = r
  <2>1. /\ docs' = docs /\ HasClass(r) /\ job'[r].class = job[r].class
        /\ job[r].class.key \notin lists
    BY <1>0, <1>1, ContextFacts DEF Begun, Goes, NextList, HasClass
  <2>2. Snapshot(r) /\ InLists(job[r].class)
    BY <2>1, ContextFacts
  <2>3. d.key = job[r].class.key /\ Rooted(d)
    BY <1>1, <2>1, <2>2 DEF Snapshot
  <2>4. d.key \in lists
    BY <1>0, <1>1, <2>1, <2>2, <2>3 DEF InLists
  <2> QED
    BY <2>1, <2>3, <2>4
<1>2. CASE q # r
  <2>1. job[q].unlisted /\ job'[q].class = job[q].class
    BY <1>2, ContextFacts DEF Result, Frame
  <2>2. job[q].class.id < serial /\ Unlisted(q) /\ HasClass(q) /\ job[q].class \in DocumentSet
    BY <2>1, ContextFacts DEF HasClass, Snapshot, ListsContext, CopyInv, Own, Program
  <2>3. \A e \in docs : e.id # d.id
    BY <2>1, <2>2 DEF Unlisted
  <2>4. serial \in Nat /\ d.id \in Nat /\ ~(d.id >= serial)
    BY <2>1, <2>2, ContextFacts DEF CatalogueTyped, DocumentSet
  <2> QED
    BY <2>3, <2>4, ContextFacts, Origin
<1> QED
  BY <1>1, <1>2

\* The second part of the invariant holds at the start,
LEMMA ListsStart == CatalogueInit => ListsKept
<1> SUFFICES ASSUME CatalogueInit PROVE ListsKept
  OBVIOUS
<1>1. \A r \in Requests : /\ job[r].pc = "idle" /\ ~job[r].unlisted /\ ~job[r].failed
  BY DEF CatalogueInit, Idle
<1>2. Unique
  BY CatalogueAssumption DEF CatalogueInit, Unique, Rooted
<1>3. \A d \in docs : InLists(d)
  <2> SUFFICES ASSUME NEW d \in docs, d.mode = "listening", NEW e \in docs, Rooted(e), e.id = d.id
               PROVE  e.key \in lists
    BY DEF InLists
  <2>1. e = d
    BY CatalogueAssumption DEF CatalogueInit
  <2> QED
    BY <2>1 DEF CatalogueInit, Rooted
<1>4. \A r \in Requests : Alone(r) /\ Creating(r) /\ Deleting(r) /\ Unlisted(r) /\ ~HasClass(r)
  BY <1>1 DEF Alone, Running, Creating, Deleting, Unlisted, HasClass
<1> QED
  BY <1>1, <1>2, <1>3, <1>4 DEF ListsKept

\* (calls that failed are not forgotten)
LEMMA FaultsGrow ==
  ASSUME CopyInv, NEW r \in Requests, CatalogueStep(r), faults' = 0
  PROVE  faults = 0
<1>1. faults' = faults \/ faults' = faults + 1
  <2>1. CASE Handlers(r)
    BY <2>1 DEF Handlers, CreateConfiguration, UpdateConfiguration, DeleteConfiguration, GetConfiguration,
       AddConfiguration, CreateTemplate, UpdateTemplate, DeleteTemplate, GetTemplate, CreateScene,
       UpdateScene, DeleteScene, GetScene, CreateSceneRelation, UpdateSceneRelation, DeleteSceneRelation,
       GetSceneRelation, CopySceneRelation, SendMessageByScene, Accepts
  <2>2. CASE ~Handlers(r)
    BY <2>2 DEF CatalogueStep, Check, Parent, Register, Insert, Find, Write, Remove, RemoveFails, Unregister,
       GetList, SetList, Look, FindClass, FindTemplate, ReadList, CopyClear, CopyExisting, CopyRead, CopyAdd,
       CopyAddFails, CopyWipe, Works, Fails
  <2> QED
    BY <2>1, <2>2
<1>2. faults \in Nat
  BY DEF CopyInv, CatalogueTyped
<1> QED
  BY <1>1, <1>2

\* and is kept.
LEMMA ListsStep == CopyInv /\ ListsKept /\ [CatalogueNext]_catalogueVars /\ CopyInv' => ListsKept'
<1> SUFFICES ASSUME CopyInv, ListsKept, [CatalogueNext]_catalogueVars, CopyInv', faults' = 0
             PROVE  ListsKept'
  BY DEF ListsKept
<1>1. ASSUME NEW r \in Requests, CatalogueStep(r)
      PROVE  ListsKept'
  <2>1. ListsContext(r)
    BY <1>1, FaultsGrow DEF ListsContext
  <2>2. Unique' /\ \A d \in docs' : InLists(d)'
    BY <2>1, UniqueStep, InListsStep
  <2>3. \A q \in Requests : ~job'[q].failed /\ Alone(q)'
    BY <2>1, AloneStep
  <2>4. \A q \in Requests : Creating(q)' /\ Deleting(q)' /\ Unlisted(q)'
    BY <2>1, CreatingStep, DeletingStep, UnlistedStep
  <2>5. \A q \in Requests : HasClass(q)' => Snapshot(q)' /\ InLists(job[q].class)'
    BY <2>1, HeldStep
  <2> QED
    BY <2>2, <2>3, <2>4, <2>5 DEF ListsKept
<1>2. CASE UNCHANGED catalogueVars
  BY <1>2 DEF catalogueVars, ListsKept, Unique, InLists, Alone, Running, Creating, Deleting, Elsewhere,
     In, Unlisted, HasClass, Snapshot, Rooted
<1> QED
  BY <1>1, <1>2 DEF CatalogueNext

\* The list of a listening class that nothing overlapped when it was created and that
\* nobody edited, and what the requests that create, delete or have read it rely on.
THEOREM ListsKeptHolds == CatalogueSpec => []ListsKept
<1> QED
  BY CopyStart, CopyStep, ListsStart, ListsStep, PTL DEF CatalogueSpec

\* createConfiguration and deleteConfiguration: while no call fails, a listening class
\* that nothing overlapped when it was created, and that nobody edited, lacks the list
\* of its users only when it has been deleted.
THEOREM NoListMeansDeletedHolds == CatalogueSpec => []NoListMeansDeleted
<1>1. CopyInv /\ ListsKept => NoListMeansDeleted
  <2> SUFFICES ASSUME CopyInv, ListsKept, faults = 0, NEW r \in Requests, job[r].unlisted,
                      job[r].class.by = "create", job[r].class.alone, ~job[r].class.edited
               PROVE  \A d \in docs : d.id # job[r].class.id
    BY DEF NoListMeansDeleted
  <2>1. job[r].class.kind = "class"
    BY DEF CopyInv, Own, Program
  <2> QED
    BY <2>1 DEF ListsKept, Unlisted, Rooted
<1> QED
  BY <1>1, CopyInvHolds, ListsKeptHolds, PTL

-----------------------------------------------------------------------------
(* The links that a pod accepts *)

\* A handler holds the mutex from the upgrade to the greeting, and only an
\* application is greeted.
HandlersHold ==
  \A l \in Links :
    /\ handler[l] \in {"upgrade", "greet"} => serverMu = l
    /\ handler[l] = "greet" => l \notin PodLinks

\* Whoever has links yet to serve holds the mutex, so that they stay registered.
PostersHold ==
  \A a \in Threads : left[a] # {} =>
    /\ serverMu = a /\ left[a] \subseteq registered
    /\ a \in PodLinks => reader[a] = "handle"

\* Before the upgrade nothing of a link is there.
Unmade ==
  \A l \in Links :
    /\ handler[l] \in {"none", "upgrade"} => conn[l] = "none"
    /\ handler[l] = "greet" => conn[l] # "none"
    /\ conn[l] = "none" =>
         /\ l \notin registered
         /\ reader[l] = "none" /\ writer[l] = "none"
         /\ channel[l] = <<>> /\ socket[l] = <<>>

TakenToWrite ==
  \A l \in Links : writer[l] = "write" <=> taken[l] # "nothing"

\* Nothing is queued before the greeting ...
Ungreeted ==
  \A l \in Links : handler[l] = "greet" =>
    channel[l] = <<>> /\ socket[l] = <<>> /\ taken[l] = "nothing" /\ reader[l] # "gone"

\* ... and afterwards, as long as the connection is open and nothing has been
\* written, the greeting is in the pump, or the first in the channel.
GreetingNext ==
  \A l \in Links \ PodLinks :
    handler[l] = "done" /\ conn[l] = "open" /\ socket[l] = <<>> =>
      \/ taken[l] = "greeting"
      \/ taken[l] = "nothing" /\ channel[l] # <<>> /\ Head(channel[l]) = "greeting"

\* A connection is closed by a ping or by disconnect.
ClosedByWhom ==
  \A l \in Links : conn[l] = "closed" => l \in pinged \/ reader[l] = "gone"

Locking == HandlersHold /\ PostersHold
Greeting == TakenToWrite /\ Ungreeted /\ GreetingNext /\ GreetingFirst
Closing == ClosedByWhom /\ GhostOnlyIfPinged

LinksInv == LinksTypeOK /\ Locking /\ Unmade /\ Greeting /\ Closing

-----------------------------------------------------------------------------
(* What the pumps do to a sequence *)

Words == {"greeting", "message"}

\* A message put on a channel stands behind what is queued there.
LEMMA QueueOne ==
  ASSUME NEW s \in Seq(Words), NEW m \in Words
  PROVE  /\ Append(s, m) \in Seq(Words) /\ Append(s, m) # <<>>
         /\ Len(Append(s, m)) = Len(s) + 1
         /\ Head(Append(s, m)) = IF s = <<>> THEN m ELSE Head(s)
BY AppendProperties, HeadTailAppend

\* What was written keeps its first word when more is written (server.go:224).
LEMMA WriteAll ==
  ASSUME NEW s \in Seq(Words), NEW m \in Words, NEW t \in Seq(Words)
  PROVE  /\ Append(s, m) \o t \in Seq(Words) /\ Append(s, m) \o t # <<>>
         /\ Head(Append(s, m) \o t) = IF s = <<>> THEN m ELSE Head(s)
<1>1. /\ Append(s, m) \in Seq(Words) /\ Len(Append(s, m)) > 0
      /\ Head(Append(s, m)) = IF s = <<>> THEN m ELSE Head(s)
  BY QueueOne
<1>2. (Append(s, m) \o t)[1] = Append(s, m)[1] /\ Len(Append(s, m) \o t) > 0
  BY <1>1
<1> QED
  BY <1>1, <1>2

\* What is left of a channel whose front was taken is no longer than it was.
LEMMA LoseSome ==
  ASSUME NEW s \in Seq(Words), NEW n \in 0 .. Len(s)
  PROVE  /\ SubSeq(s, n + 1, Len(s)) \in Seq(Words)
         /\ Len(SubSeq(s, n + 1, Len(s))) <= Len(s)
OBVIOUS

\* A poster is not a link, and nobody is called like the free mutex.
LEMMA WhoIsWho ==
  /\ PodLinks \subseteq Links /\ Unheld \notin Links \cup Threads
  /\ \A a \in Threads : a \in Links <=> a \in PodLinks
BY AcceptedLinksAssumption DEF Threads, PodLinks

-----------------------------------------------------------------------------

\* The links are sound when the pod starts.
LEMMA InitLinksInv == LinksInit => LinksInv
BY AcceptedLinksAssumption, WhoIsWho
   DEF LinksInit, LinksInv, LinksTypeOK, Locking, HandlersHold, PostersHold, Unmade, Greeting,
       TakenToWrite, Ungreeted, GreetingNext, GreetingFirst, Closing, ClosedByWhom,
       GhostOnlyIfPinged

\* Every step of a link keeps them so.
LEMMA NextLinksInv == LinksInv /\ [LinksNext]_linksVars => LinksInv'
<1> SUFFICES ASSUME LinksInv, [LinksNext]_linksVars
             PROVE  LinksInv'
  OBVIOUS
<1> USE AcceptedLinksAssumption, WhoIsWho
    DEF LinksInv, LinksTypeOK, Locking, HandlersHold, PostersHold, Unmade, Greeting,
        TakenToWrite, Ungreeted, GreetingNext, GreetingFirst, Closing, ClosedByWhom,
        GhostOnlyIfPinged
<1>1. ASSUME NEW l \in Links, AcceptLink(l)
      PROVE  LinksInv'
  <2>1. LinksTypeOK' /\ Unmade' /\ Greeting' /\ Closing'
    BY <1>1 DEF AcceptLink
  <2>2. Locking'
    BY <1>1 DEF AcceptLink
  <2> QED
    BY <2>1, <2>2
<1>2. ASSUME NEW l \in Links, UpgradeFails(l)
      PROVE  LinksInv'
  BY <1>2 DEF UpgradeFails
<1>3. ASSUME NEW l \in Links, Upgrade(l)
      PROVE  LinksInv'
  <2>1. LinksTypeOK'
    BY <1>3 DEF Upgrade, KeepsMutex, PodLinks
  <2>2. HandlersHold'
    BY <1>3 DEF Upgrade, KeepsMutex, PodLinks
  <2>3. PostersHold'
    BY <1>3 DEF Upgrade, KeepsMutex, PodLinks
  <2>4. Unmade'
    BY <1>3 DEF Upgrade, KeepsMutex, PodLinks
  <2>5. (TakenToWrite /\ Ungreeted)'
    BY <1>3 DEF Upgrade, KeepsMutex, PodLinks
  <2>6. (GreetingNext /\ GreetingFirst)'
    BY <1>3 DEF Upgrade, KeepsMutex, PodLinks
  <2>7. Closing'
    BY <1>3 DEF Upgrade, KeepsMutex, PodLinks
  <2> QED
    BY <2>1, <2>2, <2>3, <2>4, <2>5, <2>6, <2>7
<1>4. ASSUME NEW l \in Links, Greet(l)
      PROVE  LinksInv'
  <2>1. /\ channel[l] = <<>> /\ channel[l] \in Seq(Words) /\ "greeting" \in Words
        /\ conn[l] # "none" /\ l \notin Threads
    BY <1>4 DEF Greet, Words
  <2>2. /\ channel' = [channel EXCEPT ![l] = Append(@, "greeting")]
        /\ channel'[l] \in Seq(Words) /\ channel'[l] # <<>> /\ Len(channel'[l]) <= Capacity
        /\ Head(channel'[l]) = "greeting"
    BY <1>4, <2>1, QueueOne DEF Greet, HasRoom, Puts
  <2>3. LinksTypeOK'
    BY <1>4, <2>2 DEF Greet, Words
  <2>4. Locking'
    BY <1>4, <2>1 DEF Greet
  <2>5. Unmade'
    BY <1>4, <2>1, <2>2 DEF Greet
  <2>6. Greeting'
    BY <1>4, <2>1, <2>2 DEF Greet
  <2>7. Closing'
    BY <1>4 DEF Greet
  <2> QED
    BY <2>3, <2>4, <2>5, <2>6, <2>7
<1>5. ASSUME NEW l \in Links, Break(l)
      PROVE  LinksInv'
  BY <1>5 DEF Break
<1>6. ASSUME NEW l \in Links, ReadFrame(l)
      PROVE  LinksInv'
  BY <1>6 DEF ReadFrame
<1>7. ASSUME NEW l \in Links, LockConn(l)
      PROVE  LinksInv'
  BY <1>7 DEF LockConn
<1>8. ASSUME NEW l \in Links, DisconnectLink(l)
      PROVE  LinksInv'
  BY <1>8 DEF DisconnectLink, MayDisconnect, Closable
<1>9. ASSUME NEW l \in Links, TakeMessage(l)
      PROVE  LinksInv'
  <2>1. /\ channel[l] \in Seq(Words) /\ channel[l] # <<>> /\ conn[l] # "none"
        /\ handler[l] = "done" /\ taken[l] = "nothing"
    BY <1>9 DEF TakeMessage, Words
  <2>2. /\ taken' = [taken EXCEPT ![l] = Head(channel[l])]
        /\ channel' = [channel EXCEPT ![l] = Tail(@)]
        /\ writer' = [writer EXCEPT ![l] = "write"]
        /\ UNCHANGED <<serverMu, registered, handler, conn, pinged, reader, socket, left, posts>>
    BY <1>9 DEF TakeMessage
  <2>3. /\ taken'[l] \in Words /\ channel'[l] \in Seq(Words)
        /\ Len(channel'[l]) = Len(channel[l]) - 1
    BY <2>1, <2>2, HeadTailProperties
  <2>4. LinksTypeOK'
    BY <2>2, <2>3 DEF Words
  <2>5. Locking' /\ Unmade' /\ Closing'
    BY <2>1, <2>2
  <2>6. Greeting'
    BY <2>1, <2>2, <2>3 DEF Words
  <2> QED
    BY <2>4, <2>5, <2>6
<1>10. ASSUME NEW l \in Links, Flush(l)
      PROVE  LinksInv'
  <2>1. /\ channel[l] \in Seq(Words) /\ socket[l] \in Seq(Words) /\ taken[l] \in Words
        /\ conn[l] # "none" /\ handler[l] = "done"
    BY <1>10 DEF Flush, Words
  <2>2. /\ UNCHANGED <<serverMu, registered, handler, conn, pinged, reader, left, posts>>
        /\ writer' = [writer EXCEPT ![l] = "wait"]
        /\ taken' = [taken EXCEPT ![l] = "nothing"]
    BY <1>10 DEF Flush
  <2>3. CASE conn[l] = "open"
    <3>1. /\ channel' = [channel EXCEPT ![l] = <<>>]
          /\ socket' = [socket EXCEPT ![l] = Append(@, taken[l]) \o channel[l]]
      BY <1>10, <2>3 DEF Flush
    <3>2. /\ socket'[l] \in Seq(Words) /\ socket'[l] # <<>>
          /\ Head(socket'[l]) = IF socket[l] = <<>> THEN taken[l] ELSE Head(socket[l])
      BY <2>1, <3>1, WriteAll
    <3>3. l \notin PodLinks => Head(socket'[l]) = "greeting"
      BY <2>1, <2>3, <3>2 DEF Words
    <3>4. LinksTypeOK'
      BY <2>2, <3>1, <3>2 DEF Words
    <3>5. Locking' /\ Unmade' /\ Closing'
      BY <2>1, <2>2, <3>1
    <3>6. Greeting'
      BY <2>1, <2>2, <3>1, <3>2, <3>3
    <3> QED
      BY <3>4, <3>5, <3>6
  <2>4. CASE conn[l] # "open"
    <3>1. UNCHANGED socket
      BY <1>10, <2>4 DEF Flush
    <3>2. PICK n \in 0 .. Len(channel[l]) :
            channel' = [channel EXCEPT ![l] = SubSeq(@, n + 1, Len(@))]
      BY <1>10, <2>4 DEF Flush
    <3>3. channel'[l] \in Seq(Words) /\ Len(channel'[l]) <= Len(channel[l])
      BY <2>1, <3>2, LoseSome
    <3>4. LinksTypeOK'
      BY <2>1, <2>2, <3>1, <3>2, <3>3 DEF Words
    <3>5. Locking' /\ Unmade' /\ Greeting' /\ Closing'
      BY <2>1, <2>2, <2>4, <3>1, <3>2
    <3> QED
      BY <3>4, <3>5
  <2> QED
    BY <2>3, <2>4
<1>11. ASSUME NEW l \in Links, PingFails(l)
      PROVE  LinksInv'
  BY <1>11 DEF PingFails
<1>12. ASSUME NEW a \in Threads, BeginPost(a)
       PROVE  LinksInv'
  <2>1. LinksTypeOK'
    BY <1>12 DEF BeginPost, Targets
  <2>2. HandlersHold'
    BY <1>12 DEF BeginPost, Targets
  <2>3. PostersHold'
    BY <1>12 DEF BeginPost, Targets
  <2>4. Unmade'
    BY <1>12 DEF BeginPost, Targets
  <2>5. (TakenToWrite /\ Ungreeted)'
    BY <1>12 DEF BeginPost, Targets
  <2>6. (GreetingNext /\ GreetingFirst)'
    BY <1>12 DEF BeginPost, Targets
  <2>7. Closing'
    BY <1>12 DEF BeginPost, Targets
  <2> QED
    BY <2>1, <2>2, <2>3, <2>4, <2>5, <2>6, <2>7
<1>13. ASSUME NEW a \in Threads, PutOn(a)
       PROVE  LinksInv'
  <2>1. PICK l \in left[a] :
          /\ HasRoom(l) /\ Puts(l, "message")
          /\ left' = [left EXCEPT ![a] = @ \ {l}]
    BY <1>13 DEF PutOn
  <2>2. /\ serverMu = a /\ l \in Links /\ l \in registered /\ conn[l] # "none"
        /\ UNCHANGED <<serverMu, registered, handler, conn, pinged, reader, writer, taken,
                       socket, posts>>
    BY <1>13 DEF PutOn
  <2>3. channel[l] \in Seq(Words) /\ "message" \in Words
    BY <2>2 DEF Words
  <2>4. /\ channel' = [channel EXCEPT ![l] = Append(@, "message")]
        /\ channel'[l] \in Seq(Words) /\ channel'[l] # <<>> /\ Len(channel'[l]) <= Capacity
        /\ Head(channel'[l]) = IF channel[l] = <<>> THEN "message" ELSE Head(channel[l])
    BY <2>1, <2>2, <2>3, QueueOne DEF Puts, HasRoom
  <2>5. handler[l] # "greet"
    BY <2>2
  <2>6. LinksTypeOK'
    BY <2>1, <2>2, <2>4 DEF Words
  <2>7. HandlersHold'
    BY <2>2
  <2>8. PostersHold'
    <3>1. \A b \in Threads : left'[b] \subseteq left[b]
      BY <2>1
    <3> QED
      BY <2>2, <3>1
  <2>9. Unmade'
    BY <2>2, <2>4
  <2>10. Greeting'
    BY <2>2, <2>4, <2>5
  <2>11. Closing'
    BY <2>2
  <2> QED
    BY <2>6, <2>7, <2>8, <2>9, <2>10, <2>11
<1>14. ASSUME NEW a \in Threads, EndPost(a)
       PROVE  LinksInv'
  BY <1>14 DEF EndPost
<1>15. CASE UNCHANGED linksVars
  BY <1>15 DEF linksVars
<1> QED
  BY <1>1, <1>2, <1>3, <1>4, <1>5, <1>6, <1>7, <1>8, <1>9, <1>10,
     <1>11, <1>12, <1>13, <1>14, <1>15
     DEF LinksNext

\* Who holds ServerInstance.mu, and what has happened to a link meanwhile.
THEOREM LinksInvariant == LinksSpec => []LinksInv
BY InitLinksInv, NextLinksInv, PTL DEF LinksSpec

-----------------------------------------------------------------------------
\* The types of the links' variables; a channel never exceeds its capacity.
THEOREM LinksTypeCorrect == LinksSpec => []LinksTypeOK
<1>1. LinksInv => LinksTypeOK
  BY DEF LinksInv
<1> QED
  BY <1>1, LinksInvariant, PTL

\* An application hears first that it is connected: from Upgrade to Greet the
\* handler holds the mutex that every sender needs.
THEOREM GreetedFirst == LinksSpec => []GreetingFirst
<1>1. LinksInv => GreetingFirst
  BY DEF LinksInv, Greeting
<1> QED
  BY <1>1, LinksInvariant, PTL

\* Only a failed ping makes disconnect return before it deletes.
THEOREM GhostsWerePinged == LinksSpec => []GhostOnlyIfPinged
<1>1. LinksInv => GhostOnlyIfPinged
  BY DEF LinksInv, Closing
<1> QED
  BY <1>1, LinksInvariant, PTL

\* A sender keeps the mutex as long as there are links in its range, so that
\* disconnect cannot take one out under it.
THEOREM QuietAfterwards == LinksSpec => QuietAfterDisconnect
<1>1. ASSUME LinksInv, [LinksNext]_linksVars,
             NEW l \in Links, reader[l] = "gone", l \notin pinged
      PROVE  Len(channel'[l]) <= Len(channel[l])
  <2>1. l \notin registered /\ channel[l] \in Seq(Words) /\ channel \in [Links -> Seq(Words)]
    BY <1>1 DEF LinksInv, Closing, GhostOnlyIfPinged, LinksTypeOK, Words
  <2>2. ASSUME NEW k \in Links, Greet(k)
        PROVE  k # l /\ channel'[l] = channel[l]
    BY <1>1, <2>1, <2>2 DEF Greet, Puts, LinksInv, Greeting, Ungreeted
  <2>3. ASSUME NEW k \in Links, TakeMessage(k)
        PROVE  Len(channel'[l]) <= Len(channel[l])
    <3>1. CASE k = l
      BY <2>1, <2>3, <3>1, HeadTailProperties DEF TakeMessage
    <3>2. CASE k # l
      BY <2>1, <2>3, <3>2 DEF TakeMessage
    <3> QED
      BY <3>1, <3>2
  <2>4. ASSUME NEW k \in Links, Flush(k)
        PROVE  Len(channel'[l]) <= Len(channel[l])
    <3>1. CASE k = l /\ conn[k] = "open"
      <4>1. channel'[l] = <<>>
        BY <2>1, <2>4, <3>1 DEF Flush
      <4> QED
        BY <2>1, <4>1
    <3>2. CASE k = l /\ conn[k] # "open"
      <4>1. PICK n \in 0 .. Len(channel[l]) :
              channel'[l] = SubSeq(channel[l], n + 1, Len(channel[l]))
        BY <2>1, <2>4, <3>2 DEF Flush
      <4> QED
        BY <2>1, <4>1, LoseSome
    <3>3. CASE k # l
      BY <2>1, <2>4, <3>3 DEF Flush
    <3> QED
      BY <3>1, <3>2, <3>3
  <2>5. ASSUME NEW a \in Threads, PutOn(a)
        PROVE  channel'[l] = channel[l]
    BY <1>1, <2>1, <2>5 DEF PutOn, Puts, LinksInv, Locking, PostersHold
  <2>6. CASE UNCHANGED channel
    BY <2>1, <2>6
  <2> QED
    BY <1>1, <2>1, <2>2, <2>3, <2>4, <2>5, <2>6
       DEF LinksNext, AcceptLink, UpgradeFails, Upgrade, Break, ReadFrame, LockConn,
           DisconnectLink, PingFails, BeginPost, EndPost, linksVars
<1>2. LinksInv /\ [LinksNext]_linksVars =>
        [\A l \in Links : reader[l] = "gone" /\ l \notin pinged
           => Len(channel'[l]) <= Len(channel[l])]_linksVars
  BY <1>1
<1> QED
  BY <1>2, LinksInvariant, PTL DEF LinksSpec, QuietAfterDisconnect

-----------------------------------------------------------------------------
(* The composition *)

\* A step of the whole is one of a part, or leaves the part alone.
LEMMA StepsOfParts ==
  ASSUME [Next]_vars
  PROVE  /\ [CatalogueNext]_catalogueVars
         /\ [ThirdPartyNext]_thirdPartyVars
         /\ [LinksNext]_linksVars
         /\ [QueriesNext]_queriesVars
         /\ [LinkedNext]_linkedVars
<1>1. CASE UNCHANGED vars
  BY <1>1 DEF vars
<1>2. CASE Next
  BY <1>2 DEF Next
<1> QED
  BY <1>1, <1>2

\* A behaviour of the whole is a behaviour of each part: this is what lets the
\* parts be proved one by one.
THEOREM PartsHold ==
  Spec => CatalogueSpec /\ ThirdPartySpec /\ LinksSpec /\ QueriesSpec /\ LinkedSpec
<1>1. Init => CatalogueInit /\ ThirdPartyInit /\ LinksInit /\ QueriesInit /\ LinkedInit
  BY DEF Init
<1>2. [Next]_vars => [CatalogueNext]_catalogueVars BY StepsOfParts
<1>3. [Next]_vars => [ThirdPartyNext]_thirdPartyVars BY StepsOfParts
<1>4. [Next]_vars => [LinksNext]_linksVars BY StepsOfParts
<1>5. [Next]_vars => [QueriesNext]_queriesVars BY StepsOfParts
<1>6. [Next]_vars => [LinkedNext]_linkedVars BY StepsOfParts
<1> QED
  BY <1>1, <1>2, <1>3, <1>4, <1>5, <1>6, PTL
     DEF Spec, CatalogueSpec, ThirdPartySpec, LinksSpec, QueriesSpec, LinkedSpec

\* Every variable of every part keeps its type.
THEOREM ServicesTypesHold == Spec => []ServicesTypeOK
<1>1. CatalogueTypeOK /\ ThirdPartyTypeOK /\ LinksTypeOK /\ QueriesTypeOK /\ LinkedTypeOK
        => ServicesTypeOK
  BY DEF ServicesTypeOK
<1> QED
  BY <1>1, PartsHold, CatalogueTypesHold, ThirdPartyTypesHold, LinksTypeCorrect,
     QueriesTypeCorrect, LinkedTypeCorrect, PTL
=============================================================================
