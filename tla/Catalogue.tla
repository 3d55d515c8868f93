----------------------------- MODULE Catalogue -----------------------------
(***************************************************************************)
(* Message classes ("configurations"), templates, scenes and scene         *)
(* relations: documents of four MongoDB collections that concurrent        *)
(* requests of two pods create, update, delete and copy from one           *)
(* application to another (configuration.go, templates.go, scenes.go), and *)
(* the list of users that Redis keeps for every listening class            *)
(* (configuration.go:1475, messages.go:2762).  SendMessageByScene reads    *)
(* them all.  A request is a sequence of calls of the two stores; each may *)
(* fail, and the calls of two requests interleave.                         *)
(***************************************************************************)
EXTENDS Naturals, Sequences, FiniteSets

CONSTANTS
  Requests,      \* requests in flight
  Inputs,        \* what a request may ask for, see Input
  Initial,       \* documents that are there at the start
  IndexChoices,  \* whether scripts/xdm_init.mongodb has created its indexes
  MaxFaults,     \* bound: calls of a store that fail
  Names,         \* what callers call classes, templates and scenes
  AppIds,        \* applications
  NoDoc, NoApp, NoKey

\* An id is a sequence: the name that its creator gave, and then an application
\* for each copy, whose id has it as a suffix.
Keys == Seq(Names \cup AppIds) \ {<<>>}
Collections == {"class", "template", "scene", "relation"}
Uses == SUBSET ({"class", "template"} \X Keys)

InputSet ==
  [op : STRING, kind : Collections, key : Keys \cup {NoKey}, app : AppIds \cup {NoApp},
   mode : STRING, parent : Keys \cup {NoKey}, from : AppIds \cup {NoApp},
   force : BOOLEAN, uses : Uses]

DocumentSet ==
  [id : Nat, kind : Collections, key : Keys, app : AppIds \cup {NoApp}, mode : STRING,
   by : {"create", "copy"}, uses : Uses, quiet : BOOLEAN, alone : BOOLEAN, edited : BOOLEAN]

\* The name that a creator chooses is not one that a copy gives.  The documents
\* at the start are numbered; a class counts as created alone only if no other has
\* its id.
ASSUME CatalogueAssumption ==
  /\ MaxFaults \in Nat
  /\ IndexChoices \subseteq BOOLEAN
  /\ Inputs \subseteq InputSet
  /\ \A in \in Inputs :
       /\ in.op = "create" => in.key \in Keys /\ Len(in.key) = 1
       /\ in.op = "copy" => in.app \in AppIds
  /\ Initial \subseteq DocumentSet /\ IsFiniteSet(Initial)
  /\ \A d \in Initial : d.id \in 1 .. Cardinality(Initial)
  /\ \A d, e \in Initial : d.id = e.id => d = e
  /\ \A d \in Initial : d.kind = "class" /\ d.by = "create" /\ d.alone =>
       /\ Len(d.key) = 1
       /\ \A e \in Initial : e.kind = "class" /\ e.key = d.key => e = d

VARIABLES docs, lists, job, serial, faults, indexed

catalogueVars == <<docs, lists, job, serial, faults, indexed>>

Input(op, kind, key, app, mode) ==
  [op |-> op, kind |-> kind, key |-> key, app |-> app, mode |-> mode,
   parent |-> NoKey, from |-> NoApp, force |-> FALSE, uses |-> {}]

\* A relation uses a class and a template: uses has their kinds and keys.

Document(id, kind, key, app, mode) ==
  [id |-> id, kind |-> kind, key |-> key, app |-> app, mode |-> mode,
   by |-> "create", uses |-> {}, quiet |-> TRUE, alone |-> TRUE, edited |-> FALSE]

\* The collections in the order in which a copy goes through them.
Collection(i) == CASE i = 1 -> "class" [] i = 2 -> "template" [] i = 3 -> "relation"

\* Ids of classes and templates are looked up before they are used.
Checked == {"class", "template"}

Idle == [pc |-> "idle", in |-> NoDoc, got |-> NoDoc, class |-> NoDoc, at |-> 1,
         have |-> {}, todo |-> {}, ok |-> FALSE, quiet |-> FALSE, alone |-> FALSE,
         failed |-> FALSE, unlisted |-> FALSE]

CatalogueInit ==
  /\ docs = Initial
  /\ lists = {d.key : d \in {e \in Initial : e.kind = "class" /\ e.mode = "listening"}}
  /\ job = [r \in Requests |-> Idle]
  /\ serial = Cardinality(Initial) + 1
  /\ faults = 0
  /\ indexed \in IndexChoices

---------------------------------------------------------------------------
Running(r) == job[r].pc \notin {"idle", "done"}
In(r) == job[r].in
At(r, pc, op) == job[r].pc = pc /\ In(r).op = op

\* A step of r; when it writes, the others no longer run undisturbed.
Move(r, j, wrote) ==
  job' = [q \in Requests |-> IF q = r THEN j
                             ELSE IF wrote THEN [job[q] EXCEPT !.quiet = FALSE] ELSE job[q]]
Goto(r, pc) == Move(r, [job[r] EXCEPT !.pc = pc], FALSE)
Answer(r, ok, wrote) == Move(r, [job[r] EXCEPT !.pc = "done", !.ok = ok], wrote)
Failed(r, pc) == Move(r, [job[r] EXCEPT !.pc = pc, !.failed = TRUE], FALSE)
Fails == faults < MaxFaults /\ faults' = faults + 1
Works == UNCHANGED faults

Named(kind, key) == {d \in docs : d.kind = kind /\ d.key = key}
Of(kind, app) == {d \in docs : d.kind = kind /\ d.app = app}

\* The unique indexes of scripts/xdm_init.mongodb: a scene by its name, a
\* relation by its scene; the application is not a part of either.
Clashes(d) == indexed /\ d.kind \in {"scene", "relation"} /\ Named(d.kind, d.key) # {}

First(in) ==
  CASE in.op = "copy" -> IF in.force THEN "clear" ELSE "existing"
    [] in.op = "send" -> "look"
    [] in.op = "subscribe" -> "find"
    [] in.op = "create" -> IF in.kind \in Checked THEN "check" ELSE "insert"
    [] in.op \in {"update", "delete", "get"} /\ in.kind \in Checked -> "find"
    [] in.op = "get" /\ in.kind \notin Checked -> "look"
    [] in.op = "update" /\ in.kind \notin Checked -> "write"
    [] in.op = "delete" /\ in.kind \notin Checked -> "remove"

Accepts(r, op, kind) ==
  /\ job[r].pc = "idle"
  /\ \E in \in Inputs :
       /\ in.op = op /\ in.kind = kind
       /\ LET j == [Idle EXCEPT !.pc = First(in), !.in = in, !.quiet = TRUE,
                                !.alone = ~ \E q \in Requests : Running(q)]
          IN  job' = [q \in Requests |-> IF q = r THEN j ELSE [job[q] EXCEPT !.alone = FALSE]]
  /\ UNCHANGED <<docs, lists, serial, faults, indexed>>

\* The handlers of the RPCs, and of the websocket action "addConfiguration".
CreateConfiguration(r) == Accepts(r, "create", "class")
UpdateConfiguration(r) == Accepts(r, "update", "class")
DeleteConfiguration(r) == Accepts(r, "delete", "class")
GetConfiguration(r) == Accepts(r, "get", "class")
AddConfiguration(r) == Accepts(r, "subscribe", "class")
CreateTemplate(r) == Accepts(r, "create", "template")
UpdateTemplate(r) == Accepts(r, "update", "template")
DeleteTemplate(r) == Accepts(r, "delete", "template")
GetTemplate(r) == Accepts(r, "get", "template")
CreateScene(r) == Accepts(r, "create", "scene")
UpdateScene(r) == Accepts(r, "update", "scene")
DeleteScene(r) == Accepts(r, "delete", "scene")
GetScene(r) == Accepts(r, "get", "scene")
CreateSceneRelation(r) == Accepts(r, "create", "relation")
UpdateSceneRelation(r) == Accepts(r, "update", "relation")
DeleteSceneRelation(r) == Accepts(r, "delete", "relation")
GetSceneRelation(r) == Accepts(r, "get", "relation")
CopySceneRelation(r) == Accepts(r, "copy", "relation")
SendMessageByScene(r) == Accepts(r, "send", "relation")

---------------------------------------------------------------------------
NoRegister(r) == IF In(r).parent # NoKey THEN "parent" ELSE "insert"

\* Creation.  An error of the lookup counts as "there is none" (line 1240).
AfterCheck(r) == IF In(r).parent # NoKey THEN "parent"
                 ELSE IF In(r).mode = "listening" THEN "register" ELSE "insert"

AnyId(r) == TRUE

FreeId(r) == Named(In(r).kind, In(r).key) = {}

Check(r) ==
  /\ At(r, "check", "create")
  /\ \/ FreeId(r) /\ Works /\ Goto(r, AfterCheck(r))
     \/ ~FreeId(r) /\ Works /\ Answer(r, FALSE, FALSE)
     \/ Fails /\ Failed(r, AfterCheck(r))
  /\ UNCHANGED <<docs, lists, serial, indexed>>

\* A class inherits the mode and the application that the request leaves out.
Inherit(in, p) == [in EXCEPT !.mode = IF in.mode = "" THEN p.mode ELSE in.mode,
                             !.app = IF in.app = NoApp THEN p.app ELSE in.app]

Parent(r) ==
  /\ At(r, "parent", "create")
  /\ \/ \E p \in Named("class", In(r).parent) :
          LET in == Inherit(In(r), p)
          IN  /\ Works
              /\ Move(r, [job[r] EXCEPT !.in = in,
                    !.pc = IF in.mode = "listening" THEN "register" ELSE "insert"], FALSE)
     \/ Named("class", In(r).parent) = {} /\ Works /\ Answer(r, FALSE, FALSE)
     \/ Fails /\ Failed(r, "done")
  /\ UNCHANGED <<docs, lists, serial, indexed>>

\* The empty list of a listening class, written over one that may be there.
Register(r) ==
  /\ At(r, "register", "create")
  /\ \/ Works /\ lists' = lists \cup {In(r).key} /\ Move(r, [job[r] EXCEPT !.pc = "insert"], TRUE)
     \/ Fails /\ Failed(r, "done") /\ UNCHANGED lists
  /\ UNCHANGED <<docs, serial, indexed>>

NewDoc(r) ==
  [Document(serial, In(r).kind, In(r).key, In(r).app, In(r).mode)
     EXCEPT !.uses = In(r).uses, !.quiet = job[r].quiet /\ ~job[r].failed,
            !.alone = job[r].alone]

Insert(r) ==
  /\ At(r, "insert", "create")
  /\ \/ /\ Works /\ ~Clashes(NewDoc(r))
        /\ docs' = docs \cup {NewDoc(r)}
        /\ serial' = serial + 1
        /\ Answer(r, TRUE, TRUE)
     \/ Works /\ Clashes(NewDoc(r)) /\ Answer(r, FALSE, FALSE) /\ UNCHANGED <<docs, serial>>
     \/ Fails /\ Failed(r, "done") /\ UNCHANGED <<docs, serial>>
  /\ UNCHANGED <<lists, indexed>>

---------------------------------------------------------------------------
\* Update, delete and subscribe work on the copy that Find has read.
AfterFind(r, d) ==
  CASE In(r).op = "get" -> "done"
    [] In(r).op = "update" -> "write"
    [] In(r).op = "delete" -> "remove"
    [] In(r).op = "subscribe" -> IF d.mode = "listening" THEN "get" ELSE "done"

Find(r) ==
  /\ job[r].pc = "find"
  /\ \/ \E d \in Named(In(r).kind, In(r).key) :
          Works /\ Move(r, [job[r] EXCEPT !.pc = AfterFind(r, d), !.got = d], FALSE)
     \/ Named(In(r).kind, In(r).key) = {} /\ Works /\ Answer(r, FALSE, FALSE)
     \/ Fails /\ Failed(r, "done")
  /\ UNCHANGED <<docs, lists, serial, indexed>>

\* Classes and templates are written whole, from the copy; of the others only
\* the fields of the request are, in some document that the filter finds.
Edit(d, r) ==
  LET base == IF d.kind \in Checked THEN job[r].got ELSE d
  IN  [d EXCEPT !.app = IF In(r).app = NoApp THEN base.app ELSE In(r).app,
                !.mode = IF In(r).mode = "" THEN base.mode ELSE In(r).mode,
                !.uses = IF In(r).uses = {} THEN base.uses ELSE In(r).uses,
                !.edited = TRUE]

Matches(r) ==
  IF In(r).kind \in Checked THEN {d \in docs : d.id = job[r].got.id}
                            ELSE {d \in Named(In(r).kind, In(r).key) : d.app = In(r).app}

Written(d, r) == (docs \ {d}) \cup {Edit(d, r)}

Write(r) ==
  /\ At(r, "write", "update")
  /\ \/ \E d \in Matches(r) : Works /\ docs' = Written(d, r) /\ Answer(r, TRUE, TRUE)
     \/ Matches(r) = {} /\ Works /\ Answer(r, TRUE, FALSE) /\ UNCHANGED docs
     \/ Fails /\ Failed(r, "done") /\ UNCHANGED docs
  /\ UNCHANGED <<lists, serial, indexed>>

AfterRemove(r) ==
  IF In(r).kind = "class" /\ job[r].got.mode = "listening" THEN "unregister" ELSE "done"

Remove(r) ==
  /\ At(r, "remove", "delete")
  /\ \/ \E d \in Matches(r) : Works /\ docs' = docs \ {d}
     \/ Matches(r) = {} /\ Works /\ UNCHANGED docs
  /\ Move(r, [job[r] EXCEPT !.pc = AfterRemove(r), !.ok = TRUE], TRUE)
  /\ UNCHANGED <<lists, serial, indexed>>

RemoveFails(r) ==
  /\ At(r, "remove", "delete")
  /\ Fails /\ Failed(r, "done")
  /\ UNCHANGED <<docs, lists, serial, indexed>>

Unregister(r) ==
  /\ At(r, "unregister", "delete")
  /\ \/ Works /\ lists' = lists \ {In(r).key} /\ Answer(r, TRUE, TRUE)
     \/ Fails /\ Failed(r, "done") /\ UNCHANGED lists
  /\ UNCHANGED <<docs, serial, indexed>>

\* A client subscribes: the list is read, and written back unchanged, for the
\* address that is appended stays in a local slice (line 2810).
GetList(r) ==
  /\ At(r, "get", "subscribe")
  /\ \/ In(r).key \in lists /\ Works /\ Goto(r, "set")
     \/ In(r).key \notin lists /\ Works /\ Answer(r, FALSE, FALSE)
     \/ Fails /\ Failed(r, "done")
  /\ UNCHANGED <<docs, lists, serial, indexed>>

SetList(r) ==
  /\ At(r, "set", "subscribe")
  /\ \/ Works /\ lists' = lists \cup {In(r).key} /\ Answer(r, TRUE, TRUE)
     \/ Fails /\ Failed(r, "done") /\ UNCHANGED lists
  /\ UNCHANGED <<docs, serial, indexed>>

---------------------------------------------------------------------------
\* getScene and getSceneRelation: of a document that is not there, or cannot be
\* read, they give an empty one, and no error.
AfterLook(r) == IF In(r).op = "send" THEN "class" ELSE "done"

Look(r) ==
  /\ job[r].pc = "look"
  /\ \/ \E d \in Named(In(r).kind, In(r).key) :
          d.app = In(r).app /\ Works /\ Move(r, [job[r] EXCEPT !.pc = AfterLook(r), !.got = d], FALSE)
     \/ /\ \A d \in Named(In(r).kind, In(r).key) : d.app # In(r).app
        /\ Works /\ Goto(r, AfterLook(r))
     \/ Fails /\ Failed(r, AfterLook(r))
  /\ UNCHANGED <<docs, lists, serial, indexed>>

Used(r, kind) ==
  {d \in docs : d.kind = kind /\ job[r].got # NoDoc /\ <<kind, d.key>> \in job[r].got.uses}

\* validateSendMessageV2: the class, then the template, then the users of a
\* listening class.
FindClass(r) ==
  /\ At(r, "class", "send")
  /\ \/ \E d \in Used(r, "class") :
          Works /\ Move(r, [job[r] EXCEPT !.pc = "template", !.class = d], FALSE)
     \/ Used(r, "class") = {} /\ Works /\ Answer(r, FALSE, FALSE)
     \/ Fails /\ Failed(r, "done")
  /\ UNCHANGED <<docs, lists, serial, indexed>>

FindTemplate(r) ==
  /\ At(r, "template", "send")
  /\ \/ /\ Used(r, "template") # {} /\ Works
        /\ IF job[r].class.mode = "listening" THEN Goto(r, "list") ELSE Answer(r, TRUE, FALSE)
     \/ Used(r, "template") = {} /\ Works /\ Answer(r, FALSE, FALSE)
     \/ Fails /\ Failed(r, "done")
  /\ UNCHANGED <<docs, lists, serial, indexed>>

ReadList(r) ==
  /\ At(r, "list", "send")
  /\ \/ job[r].class.key \in lists /\ Works /\ Answer(r, TRUE, FALSE)
     \/ job[r].class.key \notin lists /\ Works
          /\ Move(r, [job[r] EXCEPT !.pc = "done", !.unlisted = TRUE], FALSE)
     \/ Fails /\ Failed(r, "done")
  /\ UNCHANGED <<docs, lists, serial, indexed>>

---------------------------------------------------------------------------
\* Copy of an application's documents: the ids of classes and templates get
\* the new application as a suffix, a relation keeps its scene, and uses them.
CopyKey(d, app) == IF d.kind = "relation" THEN d.key ELSE Append(d.key, app)

SameUses(d, app) == d.uses

CopyUses(d, app) == {<<u[1], Append(u[2], app)>> : u \in d.uses}

NextAt(r, pc, next) ==
  IF job[r].at < 3 THEN [job[r] EXCEPT !.at = @ + 1] ELSE [job[r] EXCEPT !.at = 1, !.pc = next]

\* With forceUpdate the new application is emptied; errors are not looked at.
CopyClear(r) ==
  /\ At(r, "clear", "copy")
  /\ LET j == NextAt(r, "clear", "read")
     IN  \/ Works /\ docs' = docs \ Of(Collection(job[r].at), In(r).app) /\ Move(r, j, TRUE)
         \/ Fails /\ UNCHANGED docs /\ Move(r, [j EXCEPT !.failed = TRUE], FALSE)
  /\ UNCHANGED <<lists, serial, indexed>>

CopyExisting(r) ==
  /\ At(r, "existing", "copy")
  /\ LET k == Collection(job[r].at)
         j == NextAt(r, "existing", "read")
     IN  \/ Works /\ Move(r, [j EXCEPT !.have = @ \cup {<<k, d.key>> : d \in Of(k, In(r).app)}], FALSE)
         \/ Fails /\ Failed(r, "done")
  /\ UNCHANGED <<docs, lists, serial, indexed>>

Skipped(r, k, d) == <<k, CopyKey(d, In(r).app)>> \in job[r].have

CopyRead(r) ==
  /\ At(r, "read", "copy")
  /\ LET k == Collection(job[r].at)
         j == NextAt(r, "read", "add")
     IN  \/ Works /\ Move(r, [j EXCEPT !.todo = @ \cup
                       {d \in Of(k, In(r).from) : ~Skipped(r, k, d)}], FALSE)
         \/ Fails /\ Failed(r, "done")
  /\ UNCHANGED <<docs, lists, serial, indexed>>

\* InsertMany stops at the first document that fails; those before it stay.
Copied(r, d, n) ==
  [Document(n, d.kind, CopyKey(d, In(r).app), In(r).app, d.mode)
     EXCEPT !.by = "copy", !.uses = CopyUses(d, In(r).app),
            !.quiet = job[r].quiet /\ ~job[r].failed]

SameSerial(r, ds) == {Copied(r, d, serial) : d \in ds}

Fresh(r, ds) ==
  {Copied(r, d, serial + Cardinality({e \in ds : e.id < d.id})) : d \in ds}

Batch(r) == {d \in job[r].todo : d.kind = Collection(job[r].at)}

CopyAdd(r) ==
  /\ At(r, "add", "copy")
  /\ LET new == Fresh(r, Batch(r))
         j == NextAt(r, "add", "done")
     IN  /\ \A d \in new : ~Clashes(d)
         /\ docs' = docs \cup new
         /\ serial' = serial + Cardinality(new)
         /\ Move(r, [j EXCEPT !.ok = (j.pc = "done")], new # {})
  /\ Works /\ UNCHANGED <<lists, indexed>>

CopyAddFails(r) ==
  /\ At(r, "add", "copy")
  /\ Batch(r) # {}
  /\ \E some \in SUBSET Batch(r) :
       LET new == Fresh(r, some)
       IN  /\ \A d \in new : ~Clashes(d)
           /\ \/ Fails /\ some # Batch(r)
              \/ Works /\ \E d \in Fresh(r, Batch(r)) : Clashes(d)
           /\ docs' = docs \cup new
           /\ serial' = serial + Cardinality(new)
           /\ Move(r, [job[r] EXCEPT !.pc = "wipe", !.at = 1, !.failed = @ \/ faults' > faults], TRUE)
  /\ UNCHANGED <<lists, indexed>>

\* After a failure all documents of the new application are deleted.
CopyWipe(r) ==
  /\ At(r, "wipe", "copy")
  /\ LET j == NextAt(r, "wipe", "done")
     IN  \/ Works /\ docs' = docs \ Of(Collection(job[r].at), In(r).app) /\ Move(r, j, TRUE)
         \/ Fails /\ UNCHANGED docs /\ Move(r, [j EXCEPT !.failed = TRUE], FALSE)
  /\ UNCHANGED <<lists, serial, indexed>>

---------------------------------------------------------------------------
Handlers(r) ==
  \/ CreateConfiguration(r) \/ UpdateConfiguration(r) \/ DeleteConfiguration(r)
  \/ GetConfiguration(r) \/ AddConfiguration(r)
  \/ CreateTemplate(r) \/ UpdateTemplate(r) \/ DeleteTemplate(r) \/ GetTemplate(r)
  \/ CreateScene(r) \/ UpdateScene(r) \/ DeleteScene(r) \/ GetScene(r)
  \/ CreateSceneRelation(r) \/ UpdateSceneRelation(r) \/ DeleteSceneRelation(r)
  \/ GetSceneRelation(r) \/ CopySceneRelation(r) \/ SendMessageByScene(r)

CatalogueStep(r) ==
  \/ Handlers(r) \/ Check(r) \/ Parent(r) \/ Register(r) \/ Insert(r)
  \/ Find(r) \/ Write(r) \/ Remove(r) \/ RemoveFails(r) \/ Unregister(r)
  \/ GetList(r) \/ SetList(r) \/ Look(r) \/ FindClass(r) \/ FindTemplate(r) \/ ReadList(r)
  \/ CopyClear(r) \/ CopyExisting(r) \/ CopyRead(r) \/ CopyAdd(r) \/ CopyAddFails(r) \/ CopyWipe(r)

CatalogueNext == \E r \in Requests : CatalogueStep(r)

CatalogueSpec == CatalogueInit /\ [][CatalogueNext]_catalogueVars

---------------------------------------------------------------------------
\* Types; the serial number of a document, its _id, is used once.
CatalogueTypeOK ==
  /\ \A d \in docs : d.id \in 1 .. (serial - 1) /\ d.kind \in {"class", "template", "scene", "relation"}
  /\ \A d, e \in docs : d.id = e.id => d = e
  /\ \A r \in Requests :
       job[r].pc \in {"idle", "check", "parent", "register", "insert", "find", "write", "remove",
                      "unregister", "get", "set", "look", "class", "template", "list",
                      "clear", "existing", "read", "add", "wipe", "done"}
  /\ faults \in 0 .. MaxFaults

\* checkClassIdExists and checkTemplateIdExists, and the ids a copy leaves out:
\* a request during which no other wrote and no call failed never inserts a
\* second class or template with an id, a copy never within the application.
NoDuplicate ==
  [][\A d \in docs' : (/\ d.id >= serial
                       /\ d.kind \in Checked
                       /\ d.quiet)
       => ~ \E e \in docs : /\ e.kind = d.kind
                            /\ e.key = d.key
                            /\ d.by = "copy" => e.app = d.app]_catalogueVars

\* createConfiguration registers the list before the class can be found, and
\* deleteConfiguration unregisters it after: while no call has failed,
\* SendMessageByScene to a listening class that nothing overlapped when it was
\* created, and nobody edited, lacks the list of its users only when the class
\* has been deleted since it was read (configuration.go:921-983, messages.go:704).
NoListMeansDeleted ==
  faults = 0 => \A r \in Requests :
    LET c == job[r].class IN
      job[r].unlisted /\ c.by = "create" /\ c.alone /\ ~c.edited
        => \A d \in docs : d.id # c.id

CopyDone(r) ==
  job[r].pc = "done" /\ job[r].ok /\ job[r].quiet /\ In(r).op = "copy"

Complete(r) ==
  \A d \in docs : d.app = In(r).from /\ d.kind # "scene"
    => \E e \in Of(d.kind, In(r).app) : e.key = CopyKey(d, In(r).app)

Present(uses, app) == \A u \in uses : Named(u[1], u[2]) \cap Of(u[1], app) # {}

RefersToCopies(r) ==
  \A d \in Of("relation", In(r).from) :
    ~Skipped(r, "relation", d) /\ Present(d.uses, In(r).from)
      => \E e \in Of("relation", In(r).app) : e.key = d.key /\ Present(e.uses, In(r).app)

\* copySceneRelation: a copy into another application that answers "ok" and that
\* nobody disturbed has put a copy of every class, template and relation of the
\* old application into the new one, and a message can be sent by every scene
\* that has one in the old application: what a relation that was not there
\* before uses is there (scenes.go:523-735).
CopyWorks ==
  \A r \in Requests : CopyDone(r) /\ In(r).from # In(r).app => Complete(r) /\ RefersToCopies(r)
=============================================================================
