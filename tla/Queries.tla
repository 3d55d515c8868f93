------------------------------ MODULE Queries ------------------------------
(***************************************************************************)
(* The queries by pages of classes, templates, scenes, scene relations and *)
(* messages.  A caller walks through the pages of one of them; each page   *)
(* is a count and a find, and others insert, change and delete documents   *)
(* in between.  Classes, templates and messages are sorted by updatedAt,   *)
(* scenes and relations come as they were inserted.  Messages are filtered *)
(* once more after the find, by the types of their classes.                *)
(*                                                                         *)
(* The callers are not part of the repository.  There are two kinds: one   *)
(* goes on until a page is short, the other for as long as total says.     *)
(***************************************************************************)
EXTENDS Naturals, FiniteSets, Sequences, Functions

CONSTANTS
  Contents,    \* the documents of each kind at the start, see Doc
  Fillings,    \* documents of each kind that others may insert
  Askers,      \* the openId that a query of messages names, or Nobody
  Nobody,
  Exclusive,   \* the classes of type "exclusive"
  ClassIds,
  Limit,       \* the size of a page
  MaxWrites    \* bound: what others write during a walk

\* Only messages have a class, a subclass, and users that they are of: the
\* sender, or Nobody if none is given, and the receivers.
Doc(id, stamp, class, sub, users) ==
  [id |-> id, stamp |-> stamp, class |-> class, sub |-> sub, users |-> users]

Given == UNION {Contents[kind] \cup Fillings[kind] : kind \in DOMAIN Contents}

ASSUME QueriesAssumption ==
  /\ Limit \in Nat \ {0} /\ MaxWrites \in Nat
  /\ Exclusive \subseteq ClassIds
  /\ \A d \in Given : d = Doc(d.id, d.stamp, d.class, d.sub, d.users)
  /\ \A kind \in DOMAIN Contents :
       LET docs == Contents[kind] IN
         /\ IsFiniteSet(docs)
         /\ \A d \in docs : d.id \in 1 .. Cardinality(docs) /\ d.stamp \in 0 .. Cardinality(docs)
         /\ \A d, e \in docs : d.id = e.id => d = e

VARIABLES store, clock, writes, known, walk, found, shown

queriesVars == <<store, clock, writes, known, walk, found, shown>>

QueriesInit ==
  \E kind \in DOMAIN Contents, asker \in Askers, desc \in BOOLEAN, byTotal \in BOOLEAN :
    /\ kind # "message" => asker = Nobody
    /\ kind \in {"scene", "relation"} => ~desc
    /\ store = Contents[kind] /\ known = ClassIds
    /\ clock = Cardinality(store) /\ writes = 0
    /\ found = <<>> /\ shown = <<>>
    /\ walk = [kind |-> kind, asker |-> asker, desc |-> desc, byTotal |-> byTotal,
               pc |-> "ask", page |-> 1, total |-> 0, seen |-> <<>>, start |-> store,
               shifts |-> 0, repeats |-> 0, tied |-> FALSE]

Ids(docs) == {d.id : d \in docs}

Wanted == {d \in store : walk.asker # Nobody => walk.asker \in d.users}

Sorted == walk.kind \notin {"scene", "relation"}

Before(d, e) ==
  IF Sorted THEN (IF walk.desc THEN d.stamp > e.stamp ELSE d.stamp < e.stamp)
            ELSE d.id < e.id

\* Documents with the same updatedAt come in any order.
Orders(docs) ==
  {s \in [1 .. Cardinality(docs) -> docs] :
     IsInjective(s) /\ \A i, j \in DOMAIN s : i < j => ~Before(s[j], s[i])}

SkipTooMany(page) == page * Limit

Skip(page) == (page - 1) * Limit

PageOf(s) == SubSeq(s, Skip(walk.page) + 1, IF Skip(walk.page) + Limit < Len(s)
                                            THEN Skip(walk.page) + Limit ELSE Len(s))

---------------------------------------------------------------------------
(* The handlers *)

Asks(kind) ==
  /\ walk.kind = kind /\ walk.pc = "ask"
  /\ walk' = [walk EXCEPT !.pc = "count"]
  /\ UNCHANGED <<store, clock, writes, known, found, shown>>

QueryConfigurations == Asks("class")
QueryTemplates == Asks("template")
QueryScenes == Asks("scene")
QuerySceneRelations == Asks("relation")
QueryMessages == Asks("message")

CountAll ==
  /\ walk.pc = "count"
  /\ walk' = [walk EXCEPT !.pc = "find", !.total = Cardinality(Wanted)]
  /\ UNCHANGED <<found, shown>>

FindPage(next) ==
  /\ walk.pc = "find"
  /\ \E s \in Orders(Wanted) : found' = PageOf(s)
  /\ shown' = IF next = "reply" THEN found' ELSE <<>>
  /\ walk' = [walk EXCEPT !.pc = next,
                !.tied = @ \/ \E d, e \in Wanted : d # e /\ ~Before(d, e) /\ ~Before(e, d)]

CountAndFind(kind) ==
  /\ walk.kind = kind
  /\ CountAll \/ FindPage("reply")
  /\ UNCHANGED <<store, clock, writes, known>>

queryConfigurations == CountAndFind("class")
queryTemplates == CountAndFind("template")
queryScenePage == CountAndFind("scene")
querySceneRelationPage == CountAndFind("relation")

\* classMap is asked for the class of a message, and filled by its subclass:
\* ClassOf gives the class whose type decides whether a message is shown.
KeyByClass(m) == m.class

MapKey(m) == m.sub

ClassOf(map, m) == IF m.class \in DOMAIN map THEN map[m.class] ELSE m.sub

Shows(m, class) == class \in Exclusive => walk.asker \in m.users

NextMessage(r, m) ==
  LET hit == m.class \in DOMAIN r.map
      class == ClassOf(r.map, m)
  IN  [map |-> IF hit THEN r.map
               ELSE [k \in DOMAIN r.map \cup {MapKey(m)} |->
                       IF k = MapKey(m) THEN m.sub ELSE r.map[k]],
       out |-> IF Shows(m, class) THEN Append(r.out, m) ELSE r.out,
       lost |-> r.lost \/ (~hit /\ m.sub \notin known)]

\* What is in classMap and in the answer after all messages that were found.
Sifted ==
  LET after[n \in 0 .. Len(found)] ==
        IF n = 0 THEN [map |-> <<>>, out |-> <<>>, lost |-> FALSE]
                 ELSE NextMessage(after[n - 1], found[n])
  IN  after[Len(found)]

\* One class that is gone fails the query.
LookUpClasses ==
  /\ walk.pc = "classes"
  /\ LET r == Sifted
     IN  /\ shown' = IF r.lost THEN <<>> ELSE r.out
         /\ walk' = [walk EXCEPT !.pc = IF r.lost THEN "failed" ELSE "reply"]
  /\ UNCHANGED found

queryMessages ==
  /\ walk.kind = "message"
  /\ CountAll \/ FindPage("classes") \/ LookUpClasses
  /\ UNCHANGED <<store, clock, writes, known>>

---------------------------------------------------------------------------
(* The answers.  The caller then asks for the next page, or has done. *)

Replies(kind, total) ==
  /\ walk.kind = kind /\ walk.pc = "reply"
  /\ LET end == IF walk.byTotal THEN walk.page * Limit >= total \/ found = <<>>
                ELSE Len(shown) < Limit
     IN  walk' = [walk EXCEPT !.seen = @ \o [i \in DOMAIN shown |-> shown[i].id],
                              !.pc = IF end THEN "done" ELSE "ask",
                              !.page = IF end THEN @ ELSE @ + 1]
  /\ UNCHANGED <<store, clock, writes, known, found, shown>>

ConfigurationsReply == Replies("class", walk.total)

\* The total of the query is not used: the answer has the length of the page.
TemplatesReply == Replies("template", Len(found))

ScenesReply == Replies("scene", walk.total)

SceneRelationsReply == Replies("relation", walk.total)

MessagesReply == Replies("message", walk.total)

QueryFails ==
  /\ walk.pc \in {"count", "find", "classes"}
  /\ walk' = [walk EXCEPT !.pc = "failed"]
  /\ UNCHANGED <<store, clock, writes, known, found, shown>>

---------------------------------------------------------------------------
(* What others write.  Two writes may have the same updatedAt. *)

Walking == walk.pc \notin {"done", "failed"} /\ writes < MaxWrites

Stamps == {clock, clock + 1}

Writes(shift, repeat, stamp) ==
  /\ Walking /\ writes' = writes + 1 /\ clock' = stamp
  /\ walk' = [walk EXCEPT !.shifts = IF shift THEN @ + 1 ELSE @,
                          !.repeats = IF repeat THEN @ + 1 ELSE @]
  /\ UNCHANGED <<known, found, shown>>

InsertOther ==
  \E f \in Fillings[walk.kind], t \in Stamps :
    /\ store' = store \cup {[f EXCEPT !.id = Cardinality(walk.start) + writes + 1, !.stamp = t]}
    /\ Writes(walk.desc, walk.desc, t)

UpdateOther ==
  \E d \in store, t \in Stamps :
    /\ store' = (store \ {d}) \cup {[d EXCEPT !.stamp = t]}
    /\ Writes(Sorted, Sorted, t)

DeleteOther ==
  \E d \in store : store' = store \ {d} /\ Writes(TRUE, FALSE, clock)

DeleteClass ==
  \E c \in known :
    /\ Walking /\ walk.kind = "message" /\ known' = known \ {c} /\ writes' = writes + 1
    /\ UNCHANGED <<store, clock, walk, found, shown>>

QueriesNext ==
  \/ QueryConfigurations \/ QueryTemplates \/ QueryScenes \/ QuerySceneRelations \/ QueryMessages
  \/ queryConfigurations \/ queryTemplates \/ queryScenePage \/ querySceneRelationPage
  \/ queryMessages
  \/ ConfigurationsReply \/ TemplatesReply \/ ScenesReply \/ SceneRelationsReply \/ MessagesReply
  \/ QueryFails \/ InsertOther \/ UpdateOther \/ DeleteOther \/ DeleteClass

QueriesSpec == QueriesInit /\ [][QueriesNext]_queriesVars

---------------------------------------------------------------------------
QueriesTypeOK ==
  /\ walk.pc \in {"ask", "count", "find", "classes", "reply", "done", "failed"}
  /\ walk.page \in Nat \ {0} /\ walk.total \in Nat /\ writes \in 0 .. MaxWrites
  /\ walk.seen \in Seq(Nat)
  /\ \A d, e \in store : d.id = e.id => d = e
  /\ Len(found) <= Limit /\ Len(shown) <= Len(found)
  /\ known \subseteq ClassIds

Done == walk.pc = "done" /\ ~walk.tied

\* A caller of templates cannot go by the total; one of messages, if it names no
\* user, cannot go by the length of a page, for what is hidden counts in it.
Suits ==
  /\ walk.kind = "template" => ~walk.byTotal
  /\ walk.kind = "message" /\ walk.asker = Nobody => walk.byTotal

MayBeSeen(d) == walk.asker \in d.users \/ {d.class, d.sub} \cap Exclusive = {}

Missed ==
  {d \in walk.start : MayBeSeen(d) /\ (walk.asker # Nobody => walk.asker \in d.users)
                      /\ d.id \in Ids(store) \ Range(walk.seen)}

FewMissed == Suits => Cardinality(Missed) <= walk.shifts

FewTwice == Len(walk.seen) - Cardinality(Range(walk.seen)) <= walk.repeats

\* Of the documents that are there all the time, and the caller may see, a walk
\* misses no more than were deleted or changed (or, with the last first, than
\* were inserted) meanwhile: none when nobody wrote, and inserts do no harm to
\* the default order (configuration.go:1031-1054, messages.go:1667-1690).
\* Nothing is in two pages but for a change (or, with the last first, an
\* insert) in between, one document for each; deletes repeat nothing.
PagesAgree == Done => FewMissed /\ FewTwice

\* An exclusive message is for its sender and its receivers (messages.go:1748):
\* others see it only after a message of the class that it has as its ClassId,
\* which then stands for its own in classMap.
OthersDontSee ==
  walk.kind = "message" => \A i \in DOMAIN found :
    LET m == found[i] IN
      m \in Range(shown) /\ m.sub \in Exclusive /\ walk.asker \notin m.users
        => m.class # m.sub /\ \E j \in 1 .. i - 1 : found[j].sub = m.class
=============================================================================
