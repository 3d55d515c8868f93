----------------------------- MODULE ThirdParty -----------------------------
(***************************************************************************)
(* Messages that leave the service for mail, short messages, Feishu and    *)
(* DingTalk (the senders, messages.go:3105-5030), and the record that      *)
(* Redis keeps for an application of a platform: its ticket, and the token *)
(* and agent of each company.  The record is read and written whole by     *)
(* senders, by the consumers of the platforms' events                      *)
(* (SubscribeThreePartMessage, common.go:514) and when a class is created  *)
(* (configuration.go:331).  Kinds name a sender and its version: "third2"  *)
(* is sendThirdPartyMessageV2.                                             *)
(***************************************************************************)
EXTENDS Naturals, Sequences, FiniteSets

CONSTANTS
  Sends, Kinds,       \* requests to send, and the senders they may call
  Users, Accounts,    \* targets; the platforms a user has an account on, in order
  Tenants, TenantOf,
  Companies,          \* the tenants that requests of version 1 may name
  OwnTenant,          \* the tenant whose id the record of a Feishu application has
  Events,             \* tickets that a platform issues, 1 .. Events
  Consumers,          \* goroutines that consume events or create classes
  MaxMishaps,         \* bound: external calls that fail
  NoTenant, NoRecord, None

Platforms == {"feishu", "dingtalk"}

ASSUME ThirdPartyAssumption ==
  /\ Events \in Nat /\ MaxMishaps \in Nat
  /\ Kinds \subseteq {"mail1", "mail2", "feishu1", "feishu2",
                      "dingtalk1", "dingtalk2", "third1", "third2"}
  /\ Accounts \in [Users -> Seq({"feishu", "dingtalk", "jumeaux"})]
  /\ TenantOf \in [Users -> Tenants] /\ OwnTenant \in Tenants
  /\ Companies \subseteq Tenants
  /\ NoTenant \notin Tenants /\ None \notin Tenants \cup {NoTenant} \cup Platforms

VARIABLES record, task, consumer, pool, mishaps

thirdPartyVars == <<record, task, consumer, pool, mishaps>>

Channels == Platforms \cup {"jumeaux", "mail"}
Slots == Tenants \cup {NoTenant}   \* NoTenant: the fields that belong to no company

FreshRecord == [ticket |-> 0, token |-> [c \in Slots |-> None], agent |-> [c \in Slots |-> None]]

NoTask ==
  [pc |-> "idle", kind |-> None, on |-> None, after |-> None, ok |-> FALSE, again |-> FALSE,
   company |-> [p \in Platforms |-> NoTenant],
   copy |-> [p \in Platforms |-> FreshRecord], stale |-> [p \in Platforms |-> FALSE],
   token |-> [p \in Platforms |-> [c \in Slots |-> None]],
   left |-> {}, cur |-> None, ready |-> {}, queue |-> {}, req |-> None, failed |-> {},
   tried |-> {}, got |-> [u \in Users |-> [p \in Channels |-> 0]]]

ThirdPartyInit ==
  /\ record \in [Platforms -> {NoRecord, FreshRecord}]
  /\ task = [s \in Sends |-> NoTask]
  /\ consumer = [c \in Consumers |-> [pc |-> "idle", on |-> None, ticket |-> 0, copy |-> FreshRecord]]
  /\ pool = Platforms \X (1 .. Events)
  /\ mishaps = 0

---------------------------------------------------------------------------
Older(k) == k \in {"mail1", "feishu1", "dingtalk1", "third1"}
Kind(s) == task[s].kind
Step(s, pc) == task[s].pc = pc

Mishap == mishaps < MaxMishaps /\ mishaps' = mishaps + 1
Fine == UNCHANGED mishaps

Set(s, t) == task' = [task EXCEPT ![s] = t]
End(s, t, good) == Set(s, [t EXCEPT !.pc = "done", !.ok = good])

\* A record is written whole; copies that others have read are now stale.
Overtaken(t, p) == [t EXCEPT !.stale[p] = TRUE]
Stored(s, p, r, t) ==
  /\ record' = [record EXCEPT ![p] = r]
  /\ task' = [q \in Sends |-> IF q = s THEN t ELSE Overtaken(task[q], p)]

\* The record that a sender reads first.
LoadFrom(k) == CASE k \in {"feishu1", "third1"} -> "feishu"
                 [] k \in {"dingtalk1", "dingtalk2", "third2"} -> "dingtalk"
                 [] OTHER -> None

StartSend(s) ==
  /\ Step(s, "idle")
  /\ \E k \in Kinds, f, d \in Companies \cup {NoTenant} :
       /\ f # NoTenant => k \in {"feishu1", "third1"}
       /\ d # NoTenant => k \in {"dingtalk1", "third1"}
       /\ Set(s, [NoTask EXCEPT !.kind = k, !.company = [feishu |-> f, dingtalk |-> d],
                    !.left = Users, !.on = LoadFrom(k),
                    !.pc = IF LoadFrom(k) = None THEN "resolve" ELSE "load"])
  /\ UNCHANGED <<record, consumer, pool, mishaps>>

Load(s) ==
  /\ Step(s, "load")
  /\ LET t == task[s]
     IN  \/ /\ record[t.on] # NoRecord /\ Fine
            /\ Set(s, [t EXCEPT !.copy[t.on] = record[t.on], !.stale[t.on] = FALSE,
                                !.pc = IF Older(t.kind) THEN "token" ELSE "resolve"])
         \/ record[t.on] = NoRecord /\ Fine /\ End(s, t, FALSE)
         \/ Mishap /\ End(s, t, FALSE)
  /\ UNCHANGED <<record, consumer, pool>>

\* Version 1: the token of the company, from the record or from the platform.
\* sendFeishuMessage always asks, and its record keeps the token it has of a
\* company (the entry that is changed is a copy, line 3495).
HasEntry(r, c) == r.token[c] # None \/ r.agent[c] # None
Needs(t, c) == t.kind = "feishu1" \/ (c # NoTenant /\ ~HasEntry(t.copy[t.on], c))
Keeps(t, c) == t.kind # "feishu1" \/ c = NoTenant \/ ~HasEntry(t.copy[t.on], c)

UseToken(t, p, c, v) == [t EXCEPT !.token[p][c] = v]
NewRecordWith(t, p, c) == [t EXCEPT !.copy[p] = [FreshRecord EXCEPT !.token[c] = c]]

KeepToken(t, p, c) == [t EXCEPT !.copy[p].token[c] = c]
AfterToken(t) == CASE t.on = "dingtalk" -> "agent"
                   [] t.on = "feishu" /\ t.kind = "third1" -> "other"
                   [] OTHER -> "resolve"

Token(s) ==
  /\ Step(s, "token")
  /\ LET t == task[s]
         c == t.company[t.on]
         new == UseToken(IF Keeps(t, c) THEN KeepToken(t, t.on, c) ELSE t, t.on, c, c)
     IN  \/ Needs(t, c) /\ Fine /\ Set(s, [new EXCEPT !.pc = "save", !.after = AfterToken(t)])
         \/ Needs(t, c) /\ Mishap /\ End(s, t, FALSE)
         \/ /\ ~Needs(t, c) /\ Fine
            /\ Set(s, [UseToken(t, t.on, c, t.copy[t.on].token[c]) EXCEPT !.pc = AfterToken(t)])
  /\ UNCHANGED <<record, consumer, pool>>

\* sendThirdPartyMessage goes on with the record of the DingTalk application.
Other(s) ==
  /\ Step(s, "other")
  /\ Set(s, [task[s] EXCEPT !.on = "dingtalk", !.pc = "load"])
  /\ UNCHANGED <<record, consumer, pool, mishaps>>

WithAgent(t, c) == IF c = NoTenant THEN t ELSE [t EXCEPT !.copy["dingtalk"].agent[c] = c]

Agent(s) ==
  /\ Step(s, "agent")
  /\ LET t == task[s]
         c == t.company["dingtalk"]
         known == c = NoTenant \/ t.copy["dingtalk"].agent[c] # None
     IN  \/ known /\ Fine /\ Set(s, [t EXCEPT !.pc = "resolve"])
         \/ ~known /\ Fine /\ Set(s, [WithAgent(t, c) EXCEPT !.pc = "save", !.after = "resolve"])
         \/ ~known /\ Mishap /\ End(s, t, FALSE)
  /\ UNCHANGED <<record, consumer, pool>>

\* Once posting has begun, a failure is reported for the targets of the
\* request (DingTalk, version 2), passed over (Feishu), or ends the sending.
Passed(t) == [t EXCEPT !.pc = "post", !.again = FALSE, !.queue = @ \ {t.req}, !.req = None]
Reported(t) == [Passed(t) EXCEPT !.failed = @ \cup t.req.to]
TryAgain(s, t) == Set(s, [t EXCEPT !.pc = "repost"])

GiveUp(s, t) ==
  CASE t.req.on = "feishu" -> Set(s, Passed(t))
    [] t.req.on = "dingtalk" /\ ~Older(t.kind) -> Set(s, Reported(t))
    [] OTHER -> End(s, t, FALSE)

Save(s) ==
  /\ Step(s, "save")
  /\ LET t == task[s]
     IN  \/ Fine /\ Stored(s, t.on, t.copy[t.on], [t EXCEPT !.pc = t.after])
         \/ /\ Mishap /\ UNCHANGED record
            /\ IF t.kind = "third1" /\ t.after \in {"account", "resolve"} /\ t.cur # None
               THEN Set(s, [t EXCEPT !.pc = t.after])   \* logged, no more
               ELSE IF t.req = None THEN End(s, t, FALSE) ELSE GiveUp(s, t)
  /\ UNCHANGED <<consumer, pool>>

---------------------------------------------------------------------------
\* Targets.  The accounts that a sender looks at, one after the other.
AccountsOf(k, u) ==
  CASE k \in {"mail1", "mail2"} -> <<"mail">>
    [] k \in {"feishu1", "feishu2"} -> <<"feishu">>
    [] k \in {"dingtalk1", "dingtalk2"} -> <<"dingtalk">>
    [] OTHER -> Accounts[u]

\* After account i of u: the next one, or the next user.
Onwards(t) == IF t.cur[2] < Len(AccountsOf(t.kind, t.cur[1]))
              THEN [t EXCEPT !.cur[2] = @ + 1, !.pc = "account"]
              ELSE [t EXCEPT !.pc = "resolve"]
NextUser(t) == [t EXCEPT !.pc = "resolve"]
Ready(t, p) == [t EXCEPT !.ready = @ \cup {<<t.cur[1], p>>}]
Logged(t) == t

Unknown(t) == [t EXCEPT !.failed = @ \cup {t.cur[1]}]

Resolve(s) ==
  /\ Step(s, "resolve")
  /\ \E u \in task[s].left :
       LET t == [task[s] EXCEPT !.left = @ \ {u}, !.cur = <<u, 1>>]
       IN  \/ Fine /\ Set(s, [t EXCEPT !.pc = IF AccountsOf(t.kind, u) = <<>> THEN "resolve" ELSE "account"])
           \/ /\ Mishap   \* the user service fails
              /\ IF t.kind \in {"dingtalk1", "third1"} THEN End(s, t, FALSE)
                 ELSE Set(s, IF Older(t.kind) THEN t ELSE Unknown(t))
  /\ UNCHANGED <<record, consumer, pool>>

On(s, p) == Step(s, "account") /\ AccountsOf(Kind(s), task[s].cur[1])[task[s].cur[2]] = p

PlainAccount(s) ==
  /\ On(s, "mail") \/ On(s, "jumeaux") \/ (On(s, "feishu") /\ Older(Kind(s)))
  /\ LET t == task[s]
         u == Ready(t, AccountsOf(t.kind, t.cur[1])[t.cur[2]])
     IN  Set(s, IF t.kind = "third2" THEN NextUser(u) ELSE Onwards(u))
  /\ UNCHANGED <<record, consumer, pool, mishaps>>

\* Version 2 asks once for the token of every tenant.  Without it
\* sendThirdPartyMessageV2 has put the account down already, and goes on.
FeishuAccount(s) ==
  /\ On(s, "feishu") /\ ~Older(Kind(s))
  /\ LET t == task[s]
         c == TenantOf[t.cur[1]]
     IN  \/ Fine /\ Set(s, NextUser(Ready(UseToken(t, "feishu", c, c), "feishu")))
         \/ /\ t.token["feishu"][c] = None /\ Mishap
            /\ Set(s, IF t.kind = "third2" THEN Onwards(Unknown(Ready(t, "feishu"))) ELSE Onwards(Unknown(t)))
  /\ UNCHANGED <<record, consumer, pool>>

DingTalkAccount(s) ==
  /\ On(s, "dingtalk") /\ ~Older(Kind(s))
  /\ LET t == task[s]
         c == TenantOf[t.cur[1]]
         known == UseToken(t, "dingtalk", c, c)
     IN  \/ Fine /\ Set(s, NextUser(Ready(known, "dingtalk")))
         \/ t.token["dingtalk"][c] = None /\ Mishap /\ End(s, t, FALSE)
         \/ Mishap /\ Set(s, Onwards(Unknown(known)))   \* no id for the account
  /\ UNCHANGED <<record, consumer, pool>>

\* sendThirdPartyMessage looks no further than the DingTalk account of the
\* last target (break, line 4511).  When there is no id it tries once more
\* with a new token, which the posting will not use (its URL is made before).
After(t) == IF t.left = {} THEN NextUser(t) ELSE Onwards(t)

OlderDingTalkAccount(s) ==
  /\ On(s, "dingtalk") /\ Older(Kind(s))
  /\ LET t == task[s]
         found == After(Ready(t, "dingtalk"))
         kept == KeepToken(found, "dingtalk", t.company["dingtalk"])
     IN  \/ Fine /\ Set(s, found)
         \/ Mishap /\ Set(s, After(t))
         \/ /\ t.kind = "third1" /\ Mishap
            /\ Set(s, [kept EXCEPT !.pc = "save", !.after = found.pc])
  /\ UNCHANGED <<record, consumer, pool>>

---------------------------------------------------------------------------
\* Posting.  Feishu gets one request for a user; DingTalk one for a tenant in
\* version 2, with the users it has ids of; otherwise one request has all.
To(t, p) == {u \in Users : <<u, p>> \in t.ready}
Request(p, c, us) == [on |-> p, of |-> c, to |-> us]
NamedCompany(t, u) == t.company["feishu"]

Tenant(t, u) == IF Older(t.kind) THEN t.company["feishu"] ELSE TenantOf[u]
Asked(t) == {c \in Tenants : t.token["dingtalk"][c] # None}

Queue(t) ==
  {Request(p, NoTenant, To(t, p)) : p \in {q \in {"mail", "jumeaux"} : To(t, q) # {}}}
  \cup {Request("feishu", Tenant(t, u), {u}) : u \in To(t, "feishu")}
  \cup IF Older(t.kind)
       THEN IF t.kind = "dingtalk1" \/ To(t, "dingtalk") # {}
            THEN {Request("dingtalk", t.company["dingtalk"], To(t, "dingtalk"))} ELSE {}
       ELSE {Request("dingtalk", c, {u \in To(t, "dingtalk") : TenantOf[u] = c}) : c \in Asked(t)}

Resolved(s) ==
  /\ Step(s, "resolve")
  /\ task[s].left = {}
  /\ LET t == [task[s] EXCEPT !.queue = Queue(task[s]), !.cur = None]
     IN  Set(s, IF t.again THEN [t EXCEPT !.pc = "repost", !.req = CHOOSE q \in t.queue : TRUE]
                ELSE [t EXCEPT !.pc = "post"])
  /\ UNCHANGED <<record, consumer, pool, mishaps>>

\* The older version sends to the sockets first, the newer one last.
Turns(t) == IF t.kind = "third1" THEN <<"jumeaux", "feishu", "dingtalk">>
            ELSE <<"mail", "feishu", "dingtalk", "jumeaux">>
Turn(t, q) == \E i \in 1 .. Len(Turns(t)) :
                Turns(t)[i] = q.on /\ \A j \in 1 .. (i - 1), o \in t.queue : o.on # Turns(t)[j]

Carries(t, q) == IF q.on \in Platforms THEN t.token[q.on][q.of] ELSE None
Tried(t) == [t EXCEPT !.tried = @ \cup {[to |-> u, on |-> t.req.on, of |-> t.req.of,
                                         token |-> Carries(t, t.req)] : u \in t.req.to}]
Accepted(t) == [t EXCEPT !.got = [u \in Users |-> [p \in Channels |->
                  IF u \in t.req.to /\ p = t.req.on THEN t.got[u][p] + 1 ELSE t.got[u][p]]]]

\* A request is accepted, refused, or lost on the way there or back.
Lost(s, t) == Mishap /\ \E u \in {t, Accepted(t)} : GiveUp(s, u)

\* Of sendThirdPartyMessage DingTalk's answer is not looked at.
Refused(s, t) ==
  CASE t.req.on = "feishu" /\ t.kind = "feishu1" -> Set(s, Passed(t))
    [] t.req.on = "feishu" /\ ~Older(t.kind) -> Set(s, Reported(t))
    [] t.req.on = "dingtalk" /\ t.kind = "third1" -> Set(s, Passed(t))
    [] t.req.on = "mail" -> End(s, t, FALSE)
    [] OTHER -> Set(s, [t EXCEPT !.pc = "refused"])

Post(s) ==
  /\ Step(s, "post")
  /\ \E q \in task[s].queue :
       LET t == Tried([task[s] EXCEPT !.req = q])
       IN  /\ Turn(task[s], q)
           /\ \/ Fine /\ Set(s, Passed(Accepted(t)))
              \/ q.on # "jumeaux" /\ Fine /\ Refused(s, t)
              \/ q.on # "jumeaux" /\ Lost(s, t)
  /\ UNCHANGED <<record, consumer, pool>>

\* After a refusal: DingTalk may say that the agent is not valid; a new one is
\* written into the map of companies, which is nil before the first of them.
\* Version 1 then gets a new token and starts over with the targets.
NilMap(t) == \A c \in Tenants : ~HasEntry(t.copy["dingtalk"], c)
AfterRefusal(t) == IF Older(t.kind) THEN "retoken" ELSE "repost"

NewAgent(s) ==
  /\ Step(s, "refused") /\ task[s].req.on = "dingtalk"
  /\ LET t == task[s]
     IN  \/ Fine /\ Set(s, [t EXCEPT !.pc = AfterRefusal(t)])   \* another reason
         \/ /\ Fine
            /\ IF NilMap(t) THEN End(s, t, FALSE)
               ELSE Set(s, [WithAgent(t, t.req.of) EXCEPT !.pc = "save", !.after = AfterRefusal(t)])
         \/ Mishap /\ GiveUp(s, t)
  /\ UNCHANGED <<record, consumer, pool>>

NewToken(s) ==
  /\ Step(s, "retoken") \/ (Step(s, "refused") /\ task[s].req.on = "feishu")
  /\ LET t == task[s]
         p == t.req.on
         c == IF p = "feishu" /\ t.req.of = NoTenant THEN OwnTenant ELSE t.req.of
         new == [UseToken(KeepToken(t, p, c), p, t.req.of, c) EXCEPT !.on = p, !.pc = "save"]
     IN  \/ p = "feishu" /\ Fine /\ Set(s, [new EXCEPT !.after = "repost"])
         \/ /\ p = "dingtalk" /\ Fine
            /\ Set(s, [new EXCEPT !.after = "resolve", !.again = TRUE, !.left = Users, !.ready = {}])
         \/ Mishap /\ GiveUp(s, t)
  /\ UNCHANGED <<record, consumer, pool>>

\* The second request; sendThirdPartyMessage sends the first one anew, whose
\* body has been read: it never arrives (line 4602).
Repost(s) ==
  /\ Step(s, "repost")
  /\ LET t == Tried(task[s])
     IN  \/ t.req.on = "dingtalk" /\ Fine /\ Set(s, Passed(Accepted(t)))
         \/ Fine /\ GiveUp(s, t)
         \/ t.req.on = "dingtalk" /\ Lost(s, t)
  /\ UNCHANGED <<record, consumer, pool>>

\* The message is stored (insertOneMessage), and the caller gets failed.
Sent(s) ==
  /\ Step(s, "post")
  /\ task[s].queue = {}
  /\ \/ Fine /\ End(s, task[s], TRUE)
     \/ Mishap /\ End(s, task[s], FALSE)
  /\ UNCHANGED <<record, consumer, pool>>

---------------------------------------------------------------------------
\* An event of a platform: a new ticket, or that a company has opened a Feishu
\* application.  It is taken as consumed when the record cannot be
\* read; a write that fails makes the event come again.  DingTalk's may bring
\* the token of the application's own company, and then its agent is asked for.
FirstFields(p) == IF p = "feishu" THEN {"ticket", "open"} ELSE {"ticket"}
AfterField(p, f) == IF p = "dingtalk" /\ f # "agent"
                    THEN IF f = "ticket" THEN {"token", "idle"} ELSE {"agent"} ELSE {"idle"}

Receive(c) ==
  /\ consumer[c].pc = "idle"
  /\ \E e \in pool :
       /\ pool' = pool \ {e}
       /\ \/ /\ record[e[1]] # NoRecord /\ Fine
             /\ \E f \in FirstFields(e[1]) : consumer' = [consumer EXCEPT ![c] =
                  [pc |-> f, on |-> e[1], ticket |-> e[2], copy |-> record[e[1]]]]
          \/ record[e[1]] = NoRecord /\ Fine /\ UNCHANGED consumer
          \/ Mishap /\ UNCHANGED consumer
  /\ UNCHANGED <<record, task>>

With(r, f, ticket) ==
  CASE f = "ticket" -> [r EXCEPT !.ticket = ticket]
    [] f = "open" -> r
    [] OTHER -> [r EXCEPT ![f][NoTenant] = NoTenant]

\* A field that has its value already is not written, except the agent, and
\* the id of the company that opens a Feishu application.
Consume(c) ==
  /\ consumer[c].pc \in {"ticket", "open", "token", "agent"}
  /\ LET e == consumer[c]
         new == With(e.copy, e.pc, e.ticket)
     IN  \/ /\ Fine /\ UNCHANGED pool
            /\ \E next \in AfterField(e.on, e.pc) :
                 consumer' = [consumer EXCEPT ![c].pc = next, ![c].copy = new]
            /\ IF new = e.copy /\ e.pc \notin {"agent", "open"} THEN UNCHANGED <<record, task>>
               ELSE /\ record' = [record EXCEPT ![e.on] = new]
                    /\ task' = [s \in Sends |-> Overtaken(task[s], e.on)]
         \/ /\ Mishap /\ UNCHANGED <<record, task>>
            /\ consumer' = [consumer EXCEPT ![c].pc = "idle"]
            /\ \/ pool' = pool \cup {<<e.on, e.ticket>>}
               \/ e.pc = "agent" /\ UNCHANGED pool

\* A class of an application that has no record is created: its record is
\* written over one that may have come meanwhile.
MissRecord(c) ==
  /\ consumer[c].pc = "idle"
  /\ \E p \in Platforms :
       record[p] = NoRecord /\ consumer' = [consumer EXCEPT ![c].pc = "make", ![c].on = p]
  /\ UNCHANGED <<record, task, pool, mishaps>>

MakeRecord(c) ==
  /\ consumer[c].pc = "make"
  /\ consumer' = [consumer EXCEPT ![c].pc = "idle"]
  /\ \/ /\ Fine
        /\ record' = [record EXCEPT ![consumer[c].on] = FreshRecord]
        /\ task' = [s \in Sends |-> Overtaken(task[s], consumer[c].on)]
     \/ Mishap /\ UNCHANGED <<record, task>>
  /\ UNCHANGED pool

---------------------------------------------------------------------------
SendStep(s) ==
  \/ StartSend(s) \/ Load(s) \/ Token(s) \/ Other(s) \/ Agent(s) \/ Save(s)
  \/ Resolve(s) \/ PlainAccount(s) \/ FeishuAccount(s) \/ DingTalkAccount(s)
  \/ OlderDingTalkAccount(s) \/ Resolved(s)
  \/ Post(s) \/ NewAgent(s) \/ NewToken(s) \/ Repost(s) \/ Sent(s)

ThirdPartyNext ==
  \/ \E s \in Sends : SendStep(s)
  \/ \E c \in Consumers : Receive(c) \/ Consume(c) \/ MissRecord(c) \/ MakeRecord(c)

ThirdPartySpec == ThirdPartyInit /\ [][ThirdPartyNext]_thirdPartyVars

---------------------------------------------------------------------------
\* Types of the records and of what a request reports.
ThirdPartyTypeOK ==
  /\ \A p \in Platforms : record[p] # NoRecord => record[p].ticket \in 0 .. Events
  /\ \A s \in Sends : /\ task[s].failed \subseteq Users
                      /\ task[s].ready \subseteq Users \X Channels
  /\ mishaps \in 0 .. MaxMishaps

\* A retry follows only a refusal: however tokens and agents are renewed in
\* between, nobody gets the message of one request twice on one platform.
NoSecondCopy ==
  \A s \in Sends, u \in Users, p \in Channels : task[s].got[u][p] <= 1

\* sendMessageV2's answer: every target is reported as failed, or a request
\* went out for it, or it has no account anywhere.
NobodyForgotten ==
  \A s \in Sends : task[s].pc = "done" /\ task[s].ok /\ ~Older(Kind(s))
    => \A u \in Users : \/ u \in task[s].failed
                        \/ \E a \in task[s].tried : a.to = u
                        \/ AccountsOf(Kind(s), u) = <<>>

\* Whoever wrote the record last, and from however old a copy: a request
\* never carries the token of a tenant that is not its targets' (version 2) or
\* the one asked for, and no company's token or agent is under another's.
TokenOfItsTenant ==
  /\ \A s \in Sends : \A a \in task[s].tried : a.on \in Platforms =>
       /\ a.token \in {None, a.of} \cup (IF a.of = NoTenant THEN {OwnTenant} ELSE {})
       /\ IF Older(Kind(s)) THEN a.of = task[s].company[a.on] ELSE a.of = TenantOf[a.to]
  /\ \A p \in Platforms : record[p] # NoRecord =>
       \A c \in Slots : record[p].token[c] \in {None, c} /\ record[p].agent[c] \in {None, c}

\* A sender takes the record back to an older ticket only when the record was
\* written between its own reading and writing, never otherwise.
TicketBackOnlyIfStale ==
  [][\A s \in Sends : task[s].pc = "save" /\ task'[s].pc # "save" /\ ~task[s].stale[task[s].on]
       => \A p \in Platforms : record'[p] # NoRecord /\ record[p] # NoRecord
            => record'[p].ticket = record[p].ticket]_thirdPartyVars
=============================================================================
