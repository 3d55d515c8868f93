--------------------------- MODULE ThirdPartyProofs ---------------------------
(***************************************************************************)
(* Proofs about ThirdParty.  SendInv is what holds of one sender whatever  *)
(* the others do, Current what it knows of the records they share.         *)
(***************************************************************************)
EXTENDS ThirdParty, TLAPS

Fields == {"pc", "kind", "on", "after", "ok", "again", "company", "copy", "stale", "token", "left",
           "cur", "ready", "queue", "req", "failed", "tried", "got"}
Records == [ticket : 0 .. Events, token : [Slots -> Slots \cup {None}], agent : [Slots -> Slots \cup {None}]]
RequestSet == [on : Channels, of : Slots, to : SUBSET Users]

Typed(t) ==
  /\ DOMAIN t = Fields
  /\ t.on \in Platforms \cup {None}
  /\ t.company \in [Platforms -> Slots]
  /\ t.copy \in [Platforms -> Records]
  /\ t.stale \in [Platforms -> BOOLEAN]
  /\ t.token \in [Platforms -> [Slots -> Slots \cup {None}]]
  /\ t.left \subseteq Users /\ t.failed \subseteq Users
  /\ t.ready \subseteq Users \X Channels
  /\ t.queue \subseteq RequestSet
  /\ t.got \in [Users -> [Channels -> {0, 1}]]

---------------------------------------------------------------------------
\* Where a sender is: it gathers accounts, posts, or retries a request.
Upon(t, pcs) == t.pc \in pcs \/ (t.pc = "save" /\ t.after \in pcs)
Gathers(t) == t.pc = "load" \/ t.pc = "token" \/ Upon(t, {"other", "agent", "resolve", "account"})
Retries(t) == t.pc = "refused" \/ Upon(t, {"retoken", "repost"})
Posts(t) == t.pc = "post" \/ Retries(t)

Serves(k) == CASE k \in {"mail1", "mail2"} -> {"mail"}
               [] k \in {"feishu1", "feishu2"} -> {"feishu"}
               [] k \in {"dingtalk1", "dingtalk2"} -> {"dingtalk"}
               [] OTHER -> {"jumeaux", "feishu", "dingtalk"}

Kinded(t) == t.pc # "idle" =>
  /\ t.kind \in Kinds
  /\ t.kind = "feishu1" => t.on = "feishu"
  /\ t.kind \in {"dingtalk1", "dingtalk2", "third2"} => t.on = "dingtalk"
  /\ t.kind = "third1" => t.on \in Platforms

Placed(t) ==
  /\ t.pc \in {"idle", "done"} \/ Gathers(t) \/ Posts(t)
  /\ t.pc \in {"load", "token", "agent", "save"} => t.kind \notin {"mail1", "mail2", "feishu2"}
  /\ t.pc = "token" \/ Upon(t, {"other", "agent"}) \/ (t.pc = "save" /\ Gathers(t)) => Older(t.kind)
  /\ Upon(t, {"other"}) => t.kind = "third1" /\ t.on = "feishu"
  /\ Upon(t, {"agent"}) => t.on = "dingtalk"
  /\ t.kind = "third1" /\ Upon(t, {"resolve", "account"}) => t.on = "dingtalk"
  /\ Gathers(t) /\ (t.again \/ t.req # None) => t.kind = "dingtalk1" /\ t.req \in RequestSet /\ t.req.on = "dingtalk"
  /\ Gathers(t) => \A a \in t.ready : a[2] \in Serves(t.kind)
  /\ Upon(t, {"account"}) => t.cur \in Users \X Nat /\ t.cur[2] \in 1 .. Len(AccountsOf(t.kind, t.cur[1]))
  /\ Gathers(t) /\ "dingtalk" \notin Serves(t.kind) => \A c \in Slots : t.token["dingtalk"][c] = None
  /\ Posts(t) => \A q \in t.queue : q.on \in Serves(t.kind)
  /\ Retries(t) => /\ t.req \in t.queue
                   /\ \/ t.req.on = "feishu" /\ t.kind = "third1"
                      \/ t.req.on = "dingtalk" /\ t.kind \in {"dingtalk1", "dingtalk2", "third2"}
  /\ Upon(t, {"retoken"}) => t.kind = "dingtalk1"

---------------------------------------------------------------------------
\* RequestSet of one platform share no target, and nobody has got what is queued.
Unsent(t, q) == \A u \in q.to : t.got[u][q.on] = 0
Apart(t) == \A q, r \in t.queue : \A u \in q.to \cap r.to : q.on = r.on => q = r
OneOnly(t) == t.kind = "dingtalk1" => \A q, r \in t.queue : q = r
NothingSent(t) == \A u \in Users, p \in Channels : t.got[u][p] = 0

Counted(t) ==
  /\ Gathers(t) => NothingSent(t)
  /\ Posts(t) => Apart(t) /\ OneOnly(t) /\ \A q \in t.queue : Unsent(t, q)
  /\ Posts(t) /\ t.kind = "dingtalk1" /\ t.queue # {} => NothingSent(t)

\* Tokens and agents are under the company that they are of.
Owns(r) == \A c \in Slots : r.token[c] \in {None, c} /\ r.agent[c] \in {None, c}
TokensOf(c) == {None, c} \cup (IF c = NoTenant THEN {OwnTenant} ELSE {})
Told(t) == \A a \in t.tried : a.on \in Platforms =>
             /\ a.token \in TokensOf(a.of)
             /\ IF Older(t.kind) THEN a.of = t.company[a.on] ELSE a.of = TenantOf[a.to]
Addressed(t, q) == q.on \in Platforms =>
  IF Older(t.kind) THEN q.of = t.company[q.on] ELSE \A u \in q.to : q.of = TenantOf[u]
Owned(t) ==
  /\ \A p \in Platforms : Owns(t.copy[p]) /\ \A c \in Slots : t.token[p][c] \in TokensOf(c)
  /\ Told(t)
  /\ Posts(t) => \A q \in t.queue : Addressed(t, q)

\* Every target is accounted for (version 2).
NoAccount(t, u) == AccountsOf(t.kind, u) = <<>>
Put(t, u) == u \in t.failed \/ \E p \in Channels : <<u, p>> \in t.ready
HasTried(t, u) == \E a \in t.tried : a.to = u
Remembers(t, u) == u \in t.failed \/ HasTried(t, u) \/ NoAccount(t, u) \/ \E q \in t.queue : u \in q.to
Remembered(t) ==
  ~Older(t.kind) =>
    /\ Gathers(t) => \A u \in Users : u \in t.left \/ Put(t, u) \/ NoAccount(t, u) \/ (t.pc = "account" /\ t.cur[1] = u)
    /\ Gathers(t) => \A u \in Users : <<u, "dingtalk">> \in t.ready => t.token["dingtalk"][TenantOf[u]] # None
    /\ Posts(t) => \A u \in Users : Remembers(t, u)
    /\ Retries(t) => \A u \in t.req.to : HasTried(t, u)
    /\ t.pc = "done" /\ t.ok => \A u \in Users : u \in t.failed \/ HasTried(t, u) \/ NoAccount(t, u)

SendInv(t) == Typed(t) /\ Kinded(t) /\ Placed(t) /\ Counted(t) /\ Owned(t) /\ Remembered(t)

---------------------------------------------------------------------------
\* What a sender has read of the record of a platform.
HasRead(t, p) ==
  /\ t.pc \notin {"idle", "done"}
  /\ t.pc = "load" => t.on # p
  /\ IF p = "feishu" THEN t.kind \in {"feishu1", "third1"}
     ELSE t.kind \in {"dingtalk1", "dingtalk2", "third1", "third2"} /\ t.on = "dingtalk"

Current(t, p) == HasRead(t, p) /\ ~t.stale[p] => t.copy[p].ticket = record[p].ticket

Consumed(e) ==
  /\ e.pc \in {"idle", "ticket", "open", "token", "agent", "make"}
  /\ e.pc = "idle" \/ e.on \in Platforms
  /\ e.pc \in {"ticket", "open", "token", "agent"} => e.ticket \in 1 .. Events
  /\ DOMAIN e = {"pc", "on", "ticket", "copy"}
  /\ e.ticket \in 0 .. Events /\ e.copy \in Records /\ Owns(e.copy)

RecordsOK == /\ DOMAIN record = Platforms
             /\ \A p \in Platforms : record[p] # NoRecord => record[p] \in Records /\ Owns(record[p])
ConsumersOK == DOMAIN consumer = Consumers /\ \A c \in Consumers : Consumed(consumer[c])
SendersOK == DOMAIN task = Sends /\ \A s \in Sends : SendInv(task[s])
AllCurrent == \A p \in Platforms : record[p] # NoRecord => \A s \in Sends : Current(task[s], p)

ThirdPartyInv ==
  /\ SendersOK /\ RecordsOK /\ AllCurrent /\ ConsumersOK
  /\ pool \subseteq Platforms \X (1 .. Events)
  /\ mishaps \in 0 .. MaxMishaps

---------------------------------------------------------------------------
\* u is t but for the fields F.
Same(t, u, F) == DOMAIN u = DOMAIN t /\ \A f \in Fields \ F : u[f] = t[f]

\* A step of a sender keeps SendInv, and reads nothing it had not read.
Reads(t, u) == \A p \in Platforms : HasRead(u, p) /\ ~u.stale[p] =>
  HasRead(t, p) /\ ~t.stale[p] /\ u.copy[p].ticket = t.copy[p].ticket
Good(t, u) == SendInv(u) /\ Reads(t, u)

Base(t) == /\ Typed(t) /\ Kinded(t) /\ t.pc # "idle"
           /\ t.kind \in Kinds
           /\ \A p \in Platforms : Owns(t.copy[p]) /\ \A c \in Slots : t.token[p][c] \in TokensOf(c)
           /\ Told(t)

\* A send that has begun.
LEMMA BaseHolds == ASSUME NEW t, SendInv(t), t.pc # "idle" PROVE Base(t)
  BY DEF SendInv, Base, Kinded, Owned

\* A sending that ends with an error.
GivenUp(t) == [t EXCEPT !.pc = "done", !.ok = FALSE]
\* A send may fail at any time.
LEMMA FailedIsGood == ASSUME NEW t, Base(t) PROVE Good(t, GivenUp(t))
<1> DEFINE u == GivenUp(t)
<1>1. Same(t, u, {"pc", "ok"}) /\ u.pc = "done" /\ u.ok = FALSE
  BY DEF GivenUp, Same, Base, Typed, Fields
<1> HIDE DEF u
<1>2. Typed(u) BY <1>1 DEF Base, Typed, Same, Fields
<1>3. Kinded(u) BY <1>1 DEF Base, Kinded, Same, Fields
<1>4. ~Gathers(u) /\ ~Posts(u) /\ ~Retries(u) BY <1>1 DEF Gathers, Posts, Retries, Upon
<1>5. Placed(u) BY <1>1, <1>4 DEF Placed, Upon
<1>6. Counted(u) BY <1>4 DEF Counted
<1>7. Owned(u) BY <1>1, <1>4 DEF Owned, Base, Told, Same, Fields
<1>8. Remembered(u) BY <1>1, <1>4 DEF Remembered
<1>9. Reads(t, u) BY <1>1 DEF Reads, HasRead
<1> QED BY <1>2, <1>3, <1>5, <1>6, <1>7, <1>8, <1>9 DEF Good, SendInv, u

\* What has been read of the records counts only after the load, and then stays,
LEMMA ReadsKept ==
  ASSUME NEW t, NEW u, t.pc \notin {"idle", "done", "load"}, u.kind = t.kind, u.on = t.on,
         u.stale = t.stale, \A p \in Platforms : u.copy[p].ticket = t.copy[p].ticket
  PROVE  Reads(t, u)
  BY DEF Reads, HasRead

\* over several changes as well.
LEMMA ReadsTransitive == ASSUME NEW t, NEW u, NEW v, Reads(t, u), Reads(u, v) PROVE Reads(t, v)
  BY DEF Reads

---------------------------------------------------------------------------
\* A request is under way: req is in the queue, and nobody has what else is.
Flying(t) ==
  /\ Base(t) /\ Apart(t) /\ OneOnly(t)
  /\ t.pc \in {"post", "refused", "retoken", "repost", "save"}
  /\ t.req \in t.queue
  /\ \A q \in t.queue \ {t.req} : Unsent(t, q)
  /\ \A q \in t.queue : Addressed(t, q)
  /\ \A q \in t.queue : q.on \in Serves(t.kind)
  /\ ~Older(t.kind) => \A u \in t.req.to : HasTried(t, u)
  /\ ~Older(t.kind) => \A u \in Users : Remembers(t, u)

\* Going on to the next request,
LEMMA PassedIsGood == ASSUME NEW t, Flying(t) PROVE Good(t, Passed(t))
<1> DEFINE u == Passed(t)
<1>1. /\ Same(t, u, {"pc", "again", "queue", "req"})
      /\ u.pc = "post" /\ u.again = FALSE /\ u.req = None /\ u.queue = t.queue \ {t.req}
  BY DEF Passed, Same, Flying, Base, Typed, Fields
<1> HIDE DEF u
<1>2. Typed(u) BY <1>1 DEF Flying, Base, Typed, Same, Fields
<1>3. Kinded(u) BY <1>1 DEF Flying, Base, Kinded, Same, Fields
<1>4. ~Gathers(u) /\ Posts(u) /\ ~Retries(u) BY <1>1 DEF Gathers, Posts, Retries, Upon
<1>5. Placed(u) BY <1>1, <1>4 DEF Placed, Upon, Flying, Same, Fields
<1>6. Counted(u)
  <2>1. Apart(u) BY <1>1 DEF Flying, Apart
  <2>2. OneOnly(u) BY <1>1 DEF Flying, OneOnly, Same, Fields
  <2>3. \A q \in u.queue : Unsent(u, q) BY <1>1 DEF Flying, Unsent, Same, Fields
  <2>4. u.kind = "dingtalk1" => u.queue = {} BY <1>1 DEF Flying, OneOnly, Same, Fields
  <2> QED BY <1>4, <2>1, <2>2, <2>3, <2>4 DEF Counted
<1>7. Owned(u) BY <1>1, <1>4 DEF Owned, Flying, Base, Told, Addressed, Same, Fields
<1>8. Remembered(u)
  <2> SUFFICES ASSUME ~Older(u.kind), NEW v \in Users PROVE Remembers(u, v)
    BY <1>1, <1>4 DEF Remembered
  <2>1. Remembers(t, v) BY <1>1 DEF Flying, Same, Fields
  <2>2. HasTried(t, v) => HasTried(u, v) BY <1>1 DEF HasTried, Same, Fields
  <2>3. \A q \in t.queue : v \in q.to => HasTried(t, v) \/ q \in u.queue
    BY <1>1 DEF Flying, Same, Fields
  <2> QED BY <1>1, <2>1, <2>2, <2>3 DEF Remembers, NoAccount, Same, Fields
<1>9. Reads(t, u) BY <1>1, ReadsKept DEF Flying, Same, Fields
<1> QED BY <1>2, <1>3, <1>5, <1>6, <1>7, <1>8, <1>9 DEF Good, SendInv, u

\* with or without a report of the failed target.
LEMMA ReportedIsGood == ASSUME NEW t, Flying(t) PROVE Good(t, Reported(t))
<1> DEFINE u == Reported(t)
<1>1. /\ Same(t, u, {"pc", "again", "queue", "req", "failed"})
      /\ u.pc = "post" /\ u.again = FALSE /\ u.req = None /\ u.queue = t.queue \ {t.req}
      /\ u.failed = t.failed \cup t.req.to
  BY DEF Reported, Passed, Same, Flying, Base, Typed, Fields
<1> HIDE DEF u
<1>2. Typed(u) BY <1>1 DEF RequestSet, Flying, Base, Typed, Same, Fields
<1>3. Kinded(u) BY <1>1 DEF Flying, Base, Kinded, Same, Fields
<1>4. ~Gathers(u) /\ Posts(u) /\ ~Retries(u) BY <1>1 DEF Gathers, Posts, Retries, Upon
<1>5. Placed(u) BY <1>1, <1>4 DEF Placed, Upon, Flying, Same, Fields
<1>6. Counted(u)
  <2>1. Apart(u) BY <1>1 DEF Flying, Apart
  <2>2. OneOnly(u) BY <1>1 DEF Flying, OneOnly, Same, Fields
  <2>3. \A q \in u.queue : Unsent(u, q) BY <1>1 DEF Flying, Unsent, Same, Fields
  <2>4. u.kind = "dingtalk1" => u.queue = {} BY <1>1 DEF Flying, OneOnly, Same, Fields
  <2> QED BY <1>4, <2>1, <2>2, <2>3, <2>4 DEF Counted
<1>7. Owned(u) BY <1>1, <1>4 DEF Owned, Flying, Base, Told, Addressed, Same, Fields
<1>8. Remembered(u)
  <2> SUFFICES ASSUME ~Older(u.kind), NEW v \in Users PROVE Remembers(u, v)
    BY <1>1, <1>4 DEF Remembered
  <2>1. Remembers(t, v) BY <1>1 DEF Flying, Same, Fields
  <2>2. HasTried(t, v) => HasTried(u, v) BY <1>1 DEF HasTried, Same, Fields
  <2>3. \A q \in t.queue : v \in q.to => HasTried(t, v) \/ q \in u.queue
    BY <1>1 DEF Flying, Same, Fields
  <2> QED BY <1>1, <2>1, <2>2, <2>3 DEF Remembers, NoAccount, Same, Fields
<1>9. Reads(t, u) BY <1>1, ReadsKept DEF Flying, Same, Fields
<1> QED BY <1>2, <1>3, <1>5, <1>6, <1>7, <1>8, <1>9 DEF Good, SendInv, u

\* What a sender does when a request gets no further.
LEMMA GiveUpIsGood ==
  ASSUME NEW s \in Sends, NEW v, Flying(v), Reads(task[s], v), GiveUp(s, v)
  PROVE  \E u : Set(s, u) /\ Good(task[s], u)
<1>1. Good(v, Passed(v)) /\ Good(v, Reported(v)) /\ Good(v, GivenUp(v))
  BY PassedIsGood, ReportedIsGood, FailedIsGood DEF Flying
<1>2. Set(s, Passed(v)) \/ Set(s, Reported(v)) \/ Set(s, GivenUp(v))
  BY DEF GiveUp, End, GivenUp
<1>3. Good(task[s], Passed(v)) /\ Good(task[s], Reported(v)) /\ Good(task[s], GivenUp(v))
  BY <1>1, ReadsTransitive DEF Good
<1> QED BY <1>2, <1>3

---------------------------------------------------------------------------
\* A request that is about to be made, or to be made again.
Loaded(t) ==
  /\ Base(t) /\ Apart(t) /\ OneOnly(t)
  /\ t.pc \in {"post", "refused", "retoken", "repost", "save"}
  /\ t.req \in t.queue
  /\ \A q \in t.queue : Unsent(t, q) /\ Addressed(t, q)
  /\ \A q \in t.queue : q.on \in Serves(t.kind)
  /\ ~Older(t.kind) => \A u \in Users : Remembers(t, u)

\* A request that is posted counts as tried,
LEMMA TriedFlies ==
  ASSUME NEW t, Loaded(t)
  PROVE  Same(t, Tried(t), {"tried"}) /\ Flying(Tried(t)) /\ Unsent(Tried(t), t.req) /\ Reads(t, Tried(t))
<1> DEFINE u == Tried(t)
           new == {[to |-> v, on |-> t.req.on, of |-> t.req.of, token |-> Carries(t, t.req)] : v \in t.req.to}
<1>1. Same(t, u, {"tried"}) /\ u.tried = t.tried \cup new
  BY DEF Tried, Same, Loaded, Base, Typed, Fields
<1> HIDE DEF u
<1>a. /\ u.queue = t.queue /\ u.req = t.req /\ u.kind = t.kind /\ u.got = t.got /\ u.company = t.company
      /\ u.failed = t.failed /\ u.pc = t.pc /\ u.on = t.on /\ u.stale = t.stale /\ u.copy = t.copy
  BY <1>1 DEF Same, Fields
<1>2. Typed(u) BY <1>1 DEF Loaded, Base, Typed, Same, Fields
<1>3. Kinded(u) BY <1>1 DEF Loaded, Base, Kinded, Same, Fields
<1>4. Told(u)
  <2>1. \A a \in t.tried : a.on \in Platforms =>
             /\ a.token \in TokensOf(a.of)
             /\ IF Older(t.kind) THEN a.of = t.company[a.on] ELSE a.of = TenantOf[a.to]
    BY DEF Loaded, Base, Told
  <2>2. t.req.of \in Slots BY DEF Loaded, Base, Typed, RequestSet
  <2>3. t.req.on \in Platforms => Carries(t, t.req) \in TokensOf(t.req.of)
    BY <2>2 DEF Carries, Loaded, Base
  <2>4. Addressed(t, t.req) BY DEF Loaded
  <2>5. \A a \in new : a.on \in Platforms =>
             /\ a.token \in TokensOf(a.of)
             /\ IF Older(t.kind) THEN a.of = t.company[a.on] ELSE a.of = TenantOf[a.to]
    BY <2>3, <2>4 DEF Addressed
  <2> HIDE DEF new
  <2> QED BY <1>1, <1>a, <2>1, <2>5 DEF Told
<1>5. Base(u) BY <1>1, <1>2, <1>3, <1>4 DEF Base, Loaded, Same, Fields
<1>6. Apart(u) /\ OneOnly(u) BY <1>a DEF Loaded, Apart, OneOnly
<1>7. \A q \in u.queue : Unsent(u, q) /\ Addressed(u, q) BY <1>a DEF Loaded, Unsent, Addressed
<1>8. ASSUME NEW v \in t.req.to PROVE HasTried(u, v)
  <2> DEFINE a == [to |-> v, on |-> t.req.on, of |-> t.req.of, token |-> Carries(t, t.req)]
  <2>1. a \in u.tried /\ a.to = v BY <1>1
  <2> HIDE DEF a
  <2> QED BY <2>1 DEF HasTried
<1>9. ~Older(u.kind) => \A v \in Users : Remembers(u, v)
  BY <1>1, <1>a DEF Loaded, Remembers, HasTried, NoAccount
<1>10. Flying(u) BY <1>a, <1>5, <1>6, <1>7, <1>8, <1>9 DEF Flying, Loaded
<1>11. Reads(t, u) BY <1>a, ReadsKept DEF Loaded
<1> QED BY <1>1, <1>7, <1>10, <1>11, <1>a DEF Loaded, u

\* and, if the platform takes it, as accepted.
LEMMA AcceptedFlies ==
  ASSUME NEW t, Flying(t), Unsent(t, t.req)
  PROVE  Flying(Accepted(t)) /\ Reads(t, Accepted(t))
<1> DEFINE u == Accepted(t)
           got == [v \in Users |-> [p \in Channels |->
                     IF v \in t.req.to /\ p = t.req.on THEN t.got[v][p] + 1 ELSE t.got[v][p]]]
<1>1. Same(t, u, {"got"}) /\ u.got = got
  BY DEF Accepted, Same, Flying, Base, Typed, Fields
<1>b. t.req \in RequestSet BY DEF Flying, Base, Typed
<1>c. t.got \in [Users -> [Channels -> {0, 1}]] BY DEF Flying, Base, Typed
<1>2. got \in [Users -> [Channels -> {0, 1}]]
  BY <1>b, <1>c DEF Unsent, RequestSet
<1>d. \A q \in t.queue \ {t.req} : \A v \in q.to : got[v][q.on] = 0
  <2> SUFFICES ASSUME NEW q \in t.queue \ {t.req}, NEW v \in q.to PROVE got[v][q.on] = 0
    OBVIOUS
  <2>1. q \in RequestSet BY DEF Flying, Base, Typed
  <2>2. t.got[v][q.on] = 0 BY DEF Flying, Unsent
  <2>3. ~(v \in t.req.to /\ q.on = t.req.on) BY DEF Flying, Apart
  <2> QED BY <2>1, <2>2, <2>3 DEF RequestSet
<1> HIDE DEF u, got
<1>a. /\ u.queue = t.queue /\ u.req = t.req /\ u.kind = t.kind /\ u.tried = t.tried /\ u.company = t.company
      /\ u.failed = t.failed /\ u.pc = t.pc /\ u.on = t.on /\ u.stale = t.stale /\ u.copy = t.copy
      /\ u.token = t.token
  BY <1>1 DEF Same, Fields
<1>3. Typed(u) BY <1>1, <1>2 DEF Flying, Base, Typed, Same, Fields
<1>4. Base(u) BY <1>3, <1>a DEF Base, Kinded, Told, Flying
<1>5. Apart(u) /\ OneOnly(u) BY <1>a DEF Flying, Apart, OneOnly
<1>6. \A q \in u.queue \ {u.req} : Unsent(u, q) BY <1>1, <1>a, <1>d DEF Unsent
<1>7. \A q \in u.queue : Addressed(u, q) BY <1>a DEF Flying, Addressed
<1>8. ~Older(u.kind) => \A v \in u.req.to : HasTried(u, v) BY <1>a DEF Flying, HasTried
<1>9. ~Older(u.kind) => \A v \in Users : Remembers(u, v)
  BY <1>a DEF Flying, Remembers, HasTried, NoAccount
<1>10. Flying(u) BY <1>a, <1>4, <1>5, <1>6, <1>7, <1>8, <1>9 DEF Flying
<1>11. Reads(t, u) BY <1>a, ReadsKept DEF Flying
<1> QED BY <1>10, <1>11 DEF u

---------------------------------------------------------------------------
\* The steps of a sender that posts.
LEMMA PostIsGood ==
  ASSUME NEW s \in Sends, SendInv(task[s]), Post(s)
  PROVE  \E u : Set(s, u) /\ Good(task[s], u)
<1> DEFINE t0 == task[s]
<1>1. PICK q \in t0.queue :
        LET t == Tried([t0 EXCEPT !.req = q])
        IN  \/ Set(s, Passed(Accepted(t)))
            \/ q.on # "jumeaux" /\ Refused(s, t)
            \/ q.on # "jumeaux" /\ \E u \in {t, Accepted(t)} : GiveUp(s, u)
  BY DEF Post, Lost
<1>p. t0.pc = "post" BY DEF Post, Step
<1> DEFINE t1 == [t0 EXCEPT !.req = q]
           t == Tried(t1)
<1>2. Same(t0, t1, {"req"}) /\ t1.req = q BY DEF SendInv, Typed, Same, Fields
<1> HIDE DEF t0, t1
<1>a. /\ t1.queue = t0.queue /\ t1.kind = t0.kind /\ t1.got = t0.got /\ t1.company = t0.company
      /\ t1.failed = t0.failed /\ t1.pc = t0.pc /\ t1.on = t0.on /\ t1.stale = t0.stale
      /\ t1.copy = t0.copy /\ t1.token = t0.token /\ t1.tried = t0.tried
  BY <1>2 DEF Same, Fields
<1>b. SendInv(t0) BY DEF t0
<1>3. Posts(t0) BY <1>p DEF Posts
<1>4. Base(t1)
  <2>1. Base(t0) BY <1>b, <1>p, BaseHolds
  <2>2. Typed(t1) BY <1>b, <1>2 DEF SendInv, Typed, Same, Fields
  <2> QED BY <1>a, <2>1, <2>2 DEF Base, Kinded, Told
<1>5. Loaded(t1)
  <2>1. Apart(t1) /\ OneOnly(t1) BY <1>a, <1>b, <1>3 DEF SendInv, Counted, Apart, OneOnly
  <2>2. \A r \in t1.queue : Unsent(t1, r) BY <1>a, <1>b, <1>3 DEF SendInv, Counted, Unsent
  <2>3. \A r \in t1.queue : Addressed(t1, r) BY <1>a, <1>b, <1>3 DEF SendInv, Owned, Addressed
  <2>4. \A r \in t1.queue : r.on \in Serves(t1.kind) BY <1>a, <1>b, <1>3 DEF SendInv, Placed
  <2>5. ~Older(t1.kind) => \A v \in Users : Remembers(t1, v)
    BY <1>a, <1>b, <1>3 DEF SendInv, Remembered, Remembers, HasTried, NoAccount
  <2> QED BY <1>2, <1>4, <1>a, <1>p, <2>1, <2>2, <2>3, <2>4, <2>5 DEF Loaded
<1>6. Same(t1, t, {"tried"}) /\ Flying(t) /\ Unsent(t, t1.req) /\ Reads(t1, t) BY <1>5, TriedFlies
<1>7. Reads(t0, t1) BY <1>a, <1>p, ReadsKept
<1>8. Reads(t0, t) BY <1>6, <1>7, ReadsTransitive
<1> HIDE DEF t
<1>c. t.req = q /\ t.kind = t0.kind /\ t.pc = "post" BY <1>6, <1>2, <1>a, <1>p DEF Same, Fields
<1>9. Flying(Accepted(t)) /\ Reads(t0, Accepted(t))
  BY <1>6, <1>8, <1>c, <1>2, AcceptedFlies, ReadsTransitive
<1>10. CASE Set(s, Passed(Accepted(t)))
  BY <1>9, <1>10, PassedIsGood, ReadsTransitive DEF Good, t0
<1>11. CASE q.on # "jumeaux" /\ Refused(s, t)
  <2> DEFINE v == [t EXCEPT !.pc = "refused"]
  <2>1. Set(s, Passed(t)) \/ Set(s, Reported(t)) \/ Set(s, GivenUp(t))
        \/ ( /\ Set(s, v) /\ t.req.on # "jumeaux" /\ t.req.on # "mail"
             /\ t.req.on = "feishu" => t.kind # "feishu1" /\ Older(t.kind)
             /\ t.req.on = "dingtalk" => t.kind # "third1")
    BY <1>11, <1>c DEF Refused, End, GivenUp
  <2>2. CASE Set(s, Passed(t)) \/ Set(s, Reported(t)) \/ Set(s, GivenUp(t))
    BY <2>2, <1>6, <1>8, PassedIsGood, ReportedIsGood, FailedIsGood, ReadsTransitive DEF Good, t0, Flying
  <2>3. ASSUME t.req.on # "jumeaux", t.req.on # "mail",
               t.req.on = "feishu" => t.kind # "feishu1" /\ Older(t.kind),
               t.req.on = "dingtalk" => t.kind # "third1"
        PROVE  Good(t0, v)
    <3>1. Same(t, v, {"pc"}) /\ v.pc = "refused" BY <1>6 DEF Flying, Base, Typed, Same, Fields
    <3> HIDE DEF v
    <3>a. /\ v.queue = t.queue /\ v.kind = t.kind /\ v.got = t.got /\ v.company = t.company
          /\ v.failed = t.failed /\ v.on = t.on /\ v.stale = t.stale /\ v.req = t.req
          /\ v.copy = t.copy /\ v.token = t.token /\ v.tried = t.tried
      BY <3>1 DEF Same, Fields
    <3>2. Typed(v) BY <1>6, <3>1 DEF Flying, Base, Typed, Same, Fields
    <3>3. Kinded(v) BY <1>6, <3>a DEF Flying, Base, Kinded
    <3>4. ~Gathers(v) /\ Posts(v) /\ Retries(v) BY <3>1 DEF Gathers, Posts, Retries, Upon
    <3>5. Placed(v)
      <4>1. t.req \in RequestSet /\ t.req \in t.queue BY <1>6 DEF Flying, Base, Typed
      <4>2. t.kind \in {"mail1", "mail2", "feishu1", "feishu2",
                      "dingtalk1", "dingtalk2", "third1", "third2"}
        BY <1>6, ThirdPartyAssumption DEF Flying, Base
      <4>3. \/ t.req.on = "feishu" /\ t.kind = "third1"
            \/ t.req.on = "dingtalk" /\ t.kind \in {"dingtalk1", "dingtalk2", "third2"}
        <5>1. t.req.on \in Platforms BY <2>3, <4>1 DEF RequestSet, Channels
        <5>2. t.req.on \in Serves(t.kind) BY <1>6, <4>1 DEF Flying
        <5>3. CASE t.req.on = "feishu" BY <5>2, <5>3, <2>3, <4>2 DEF Older, Serves
        <5>4. CASE t.req.on = "dingtalk" BY <5>2, <5>4, <2>3, <4>2 DEF Older, Serves
        <5> QED BY <5>1, <5>3, <5>4 DEF Platforms
      <4> QED BY <1>6, <3>1, <3>4, <3>a, <4>1, <4>3 DEF Placed, Flying, Upon
    <3>6. Counted(v)
      <4>1. t0.got = t.got /\ t0.queue = t.queue /\ t0.kind = t.kind BY <1>6, <1>a DEF Same, Fields
      <4>2. \A r \in v.queue : Unsent(v, r) BY <1>3, <1>b, <3>a, <4>1 DEF SendInv, Counted, Unsent
      <4>3. v.kind = "dingtalk1" /\ v.queue # {} => NothingSent(v)
        BY <1>3, <1>b, <3>a, <4>1 DEF SendInv, Counted, NothingSent
      <4>4. Apart(v) /\ OneOnly(v) BY <1>6, <3>a DEF Flying, Apart, OneOnly
      <4> QED BY <3>4, <4>2, <4>3, <4>4 DEF Counted
    <3>7. Owned(v) BY <1>6, <3>a, <3>4 DEF Owned, Flying, Base, Told, Addressed
    <3>8. Remembered(v)
      BY <1>6, <3>a, <3>1, <3>4 DEF Flying, Remembered, Remembers, HasTried, NoAccount
    <3>9. Reads(t, v) BY <1>c, <3>a, ReadsKept
    <3> QED BY <3>2, <3>3, <3>5, <3>6, <3>7, <3>8, <3>9, <1>8, ReadsTransitive DEF Good, SendInv
  <2> QED BY <2>1, <2>2, <2>3 DEF t0
<1>12. CASE \E u \in {t, Accepted(t)} : GiveUp(s, u)
  BY <1>12, <1>6, <1>8, <1>9, GiveUpIsGood DEF t0
<1> QED BY <1>1, <1>10, <1>11, <1>12 DEF t, t1, t0

---------------------------------------------------------------------------
\* What the helpers change of a record that a sender has, and of its tokens.
LEMMA WithAgentFields ==
  ASSUME NEW t, Base(t), NEW c \in Slots
  PROVE  LET u == WithAgent(t, c)
         IN  /\ Same(t, u, {"copy"}) /\ u.copy \in [Platforms -> Records]
             /\ \A p \in Platforms : Owns(u.copy[p]) /\ u.copy[p].ticket = t.copy[p].ticket
<1>1. CASE c = NoTenant BY <1>1 DEF WithAgent, Same, Base, Typed
<1>2. CASE c # NoTenant
  <2> DEFINE u == WithAgent(t, c)
             cs == t.copy
             r == [cs["dingtalk"] EXCEPT !.agent[c] = c]
  <2>1. Same(t, u, {"copy"}) /\ u.copy = [cs EXCEPT !["dingtalk"] = r]
    BY <1>2 DEF WithAgent, Same, Base, Typed, Fields
  <2>2. cs \in [Platforms -> Records] /\ \A p \in Platforms : Owns(cs[p])
    BY DEF Base, Typed
  <2> HIDE DEF u, cs
  <2>3. "dingtalk" \in Platforms BY DEF Platforms
  <2>4. r \in Records /\ r.ticket = cs["dingtalk"].ticket /\ Owns(r)
    <3> DEFINE d == cs["dingtalk"]
    <3>1. d \in Records /\ Owns(d) BY <2>2, <2>3
    <3> HIDE DEF d
    <3>2. [d EXCEPT !.agent[c] = c] \in Records BY <3>1 DEF Records
    <3>3. [d EXCEPT !.agent[c] = c].ticket = d.ticket BY <3>1 DEF Records
    <3>4. Owns([d EXCEPT !.agent[c] = c]) BY <3>1 DEF Records, Owns
    <3> QED BY <3>2, <3>3, <3>4 DEF d
  <2> HIDE DEF r
  <2>5. u.copy \in [Platforms -> Records] BY <2>1, <2>2, <2>4
  <2>6. \A p \in Platforms : Owns(u.copy[p]) /\ u.copy[p].ticket = cs[p].ticket
    BY <2>1, <2>2, <2>4
  <2> QED BY <2>1, <2>5, <2>6 DEF u, cs
<1> QED BY <1>1, <1>2

\* What keeping a new token changes,
LEMMA KeepTokenFields ==
  ASSUME NEW t, Base(t), NEW q \in Platforms, NEW c \in Slots
  PROVE  LET u == KeepToken(t, q, c)
         IN  /\ Same(t, u, {"copy"}) /\ u.copy \in [Platforms -> Records]
             /\ \A p \in Platforms : Owns(u.copy[p]) /\ u.copy[p].ticket = t.copy[p].ticket
<1> DEFINE u == KeepToken(t, q, c)
           cs == t.copy
           r == [cs[q] EXCEPT !.token[c] = c]
<1>1. Same(t, u, {"copy"}) /\ u.copy = [cs EXCEPT ![q] = r]
  BY DEF KeepToken, Same, Base, Typed, Fields
<1>2. cs \in [Platforms -> Records] /\ \A p \in Platforms : Owns(cs[p])
  BY DEF Base, Typed
<1> HIDE DEF u, cs
<1>4. r \in Records /\ r.ticket = cs[q].ticket /\ Owns(r)
  <2> DEFINE d == cs[q]
  <2>1. d \in Records /\ Owns(d) BY <1>2
  <2> HIDE DEF d
  <2>2. [d EXCEPT !.token[c] = c] \in Records BY <2>1 DEF Records
  <2>3. [d EXCEPT !.token[c] = c].ticket = d.ticket BY <2>1 DEF Records
  <2>4. Owns([d EXCEPT !.token[c] = c]) BY <2>1 DEF Records, Owns
  <2> QED BY <2>2, <2>3, <2>4 DEF d
<1> HIDE DEF r
<1>5. u.copy \in [Platforms -> Records] BY <1>1, <1>2, <1>4
<1>6. \A p \in Platforms : Owns(u.copy[p]) /\ u.copy[p].ticket = cs[p].ticket
  BY <1>1, <1>2, <1>4
<1> QED BY <1>1, <1>5, <1>6 DEF u, cs

\* and what using one from the record does.
LEMMA UseTokenFields ==
  ASSUME NEW t, Base(t), NEW q \in Platforms, NEW c \in Slots, NEW v \in TokensOf(c), v \in Slots \cup {None}
  PROVE  LET u == UseToken(t, q, c, v)
         IN  /\ Same(t, u, {"token"}) /\ u.token \in [Platforms -> [Slots -> Slots \cup {None}]]
             /\ \A p \in Platforms, d \in Slots :
                  u.token[p][d] = IF p = q /\ d = c THEN v ELSE t.token[p][d]
             /\ \A p \in Platforms, d \in Slots : u.token[p][d] \in TokensOf(d)
<1> DEFINE u == UseToken(t, q, c, v)
           ts == t.token
<1>1. Same(t, u, {"token"}) /\ u.token = [ts EXCEPT ![q] = [ts[q] EXCEPT ![c] = v]]
  BY DEF UseToken, Same, Base, Typed, Fields
<1>2. ts \in [Platforms -> [Slots -> Slots \cup {None}]]
      /\ \A p \in Platforms, d \in Slots : ts[p][d] \in TokensOf(d)
  BY DEF Base, Typed
<1> HIDE DEF u, ts
<1>3. u.token \in [Platforms -> [Slots -> Slots \cup {None}]] BY <1>1, <1>2
<1>4. \A p \in Platforms, d \in Slots : u.token[p][d] = IF p = q /\ d = c THEN v ELSE ts[p][d]
  BY <1>1, <1>2
<1>5. \A p \in Platforms, d \in Slots : u.token[p][d] \in TokensOf(d)
  BY <1>2, <1>4
<1> QED BY <1>1, <1>3, <1>4, <1>5 DEF u, ts

---------------------------------------------------------------------------
\* A retry: the request in hand is one that has been refused, or not made yet.
LEMMA RetryLoaded == ASSUME NEW t, SendInv(t), Retries(t) PROVE Loaded(t) /\ Flying(t)
<1>1. t.pc \in {"refused", "retoken", "repost", "save"} BY DEF Retries, Upon
<1>2. Base(t) BY <1>1, BaseHolds
<1>3. Posts(t) BY DEF Posts
<1>4. Apart(t) /\ OneOnly(t) /\ \A q \in t.queue : Unsent(t, q) BY <1>3 DEF SendInv, Counted
<1>5. \A q \in t.queue : Addressed(t, q) BY <1>3 DEF SendInv, Owned
<1>6. t.req \in t.queue /\ \A q \in t.queue : q.on \in Serves(t.kind) BY <1>3 DEF SendInv, Placed
<1>7. ~Older(t.kind) => (\A u \in Users : Remembers(t, u)) /\ \A u \in t.req.to : HasTried(t, u)
  BY <1>3 DEF SendInv, Remembered
<1> QED BY <1>1, <1>2, <1>4, <1>5, <1>6, <1>7 DEF Loaded, Flying

\* The outcomes of a request: it is posted again,
LEMMA RepostIsGood ==
  ASSUME NEW s \in Sends, SendInv(task[s]), Repost(s)
  PROVE  \E u : Set(s, u) /\ Good(task[s], u)
<1> DEFINE t == Tried(task[s])
<1>1. Retries(task[s]) BY DEF Repost, Step, Retries, Upon
<1>2. Loaded(task[s]) BY <1>1, RetryLoaded
<1>3. Same(task[s], t, {"tried"}) /\ Flying(t) /\ Unsent(t, task[s].req) /\ Reads(task[s], t)
  BY <1>2, TriedFlies
<1>4. Set(s, Passed(Accepted(t))) \/ GiveUp(s, t) \/ GiveUp(s, Accepted(t))
  BY DEF Repost, Lost
<1> HIDE DEF t
<1>5. t.req = task[s].req BY <1>3 DEF Same, Fields
<1>6. Flying(Accepted(t)) /\ Reads(task[s], Accepted(t))
  BY <1>3, <1>5, AcceptedFlies, ReadsTransitive
<1>7. Good(task[s], Passed(Accepted(t))) BY <1>6, PassedIsGood, ReadsTransitive DEF Good
<1> QED BY <1>3, <1>4, <1>6, <1>7, GiveUpIsGood

\* A retry that goes on: only its place, its record and its tokens change.
LEMMA RetryIsGood ==
  ASSUME NEW t, NEW u, SendInv(t), Retries(t), Retries(u),
         Same(t, u, {"pc", "after", "copy", "token", "on"}),
         u.copy \in [Platforms -> Records], u.token \in [Platforms -> [Slots -> Slots \cup {None}]],
         \A p \in Platforms : Owns(u.copy[p]) /\ \A c \in Slots : u.token[p][c] \in TokensOf(c),
         \A p \in Platforms : u.copy[p].ticket = t.copy[p].ticket,
         u.on = t.on \/ (u.on = "feishu" /\ t.kind = "third1"),
         Upon(u, {"retoken"}) => t.kind = "dingtalk1"
  PROVE  Good(t, u)
<1>a. /\ u.queue = t.queue /\ u.req = t.req /\ u.kind = t.kind /\ u.tried = t.tried /\ u.company = t.company
      /\ u.failed = t.failed /\ u.stale = t.stale /\ u.got = t.got /\ u.left = t.left /\ u.ready = t.ready
  BY DEF Same, Fields
<1>1. Posts(t) /\ Posts(u) BY DEF Posts
<1>2. ~Gathers(u) /\ u.pc \notin {"idle", "done"} BY DEF Gathers, Retries, Upon
<1>3. Typed(u) BY <1>a DEF SendInv, Typed, Same, Platforms
<1>4. Kinded(u)
  <2>1. Kinded(t) /\ t.kind \in Kinds /\ t.pc # "idle" BY RetryLoaded DEF Loaded, Base
  <2> QED BY <1>a, <2>1 DEF Kinded, Platforms
<1>5. Placed(u)
  <2>1. /\ \A q \in t.queue : q.on \in Serves(t.kind)
        /\ t.req \in t.queue
        /\ \/ t.req.on = "feishu" /\ t.kind = "third1"
           \/ t.req.on = "dingtalk" /\ t.kind \in {"dingtalk1", "dingtalk2", "third2"}
    BY <1>1 DEF SendInv, Placed
  <2>2. u.pc \notin {"load", "token"} /\ ~Upon(u, {"other", "agent", "resolve", "account"})
    BY DEF Retries, Upon
  <2> QED BY <1>a, <1>1, <1>2, <2>1, <2>2 DEF Placed, Upon
<1>6. Counted(u) BY <1>a, <1>1, <1>2 DEF SendInv, Counted, Apart, OneOnly, Unsent, NothingSent
<1>7. Owned(u) BY <1>a, <1>1 DEF SendInv, Owned, Told, Addressed
<1>8. Remembered(u) BY <1>a, <1>1, <1>2 DEF SendInv, Remembered, Remembers, HasTried, NoAccount
<1>9. Reads(t, u)
  <2>1. t.pc \notin {"idle", "done", "load"} BY DEF Retries, Upon
  <2> QED BY <1>a, <2>1 DEF Reads, HasRead
<1> QED BY <1>3, <1>4, <1>5, <1>6, <1>7, <1>8, <1>9 DEF Good, SendInv

\* with a new agent,
LEMMA NewAgentIsGood ==
  ASSUME NEW s \in Sends, SendInv(task[s]), NewAgent(s)
  PROVE  \E u : Set(s, u) /\ Good(task[s], u)
<1> DEFINE t == task[s]
           go == [t EXCEPT !.pc = AfterRefusal(t)]
           w == WithAgent(t, t.req.of)
           save == [w EXCEPT !.pc = "save", !.after = AfterRefusal(t)]
<1>1. t.pc = "refused" /\ t.req.on = "dingtalk" BY DEF NewAgent, Step
<1>2. Set(s, go) \/ Set(s, GivenUp(t)) \/ Set(s, save) \/ GiveUp(s, t)
  BY DEF NewAgent, End, GivenUp
<1>b. SendInv(t) OBVIOUS
<1> HIDE DEF t
<1>3. Retries(t) BY <1>1 DEF Retries
<1>4. Flying(t) /\ Base(t) BY <1>b, <1>3, RetryLoaded DEF Flying
<1>5. AfterRefusal(t) \in {"retoken", "repost"} /\ (AfterRefusal(t) = "retoken" => t.kind = "dingtalk1")
  BY <1>b, <1>1, <1>3 DEF AfterRefusal, SendInv, Placed, Older
<1>6. Good(t, go)
  <2>1. Same(t, go, {"pc"}) /\ go.pc = AfterRefusal(t) BY <1>4 DEF Same, Base, Typed, Fields
  <2> HIDE DEF go
  <2>2. Retries(go) BY <2>1, <1>5 DEF Retries, Upon
  <2>3. Same(t, go, {"pc", "after", "copy", "token", "on"}) BY <2>1 DEF Same
  <2>4. go.copy = t.copy /\ go.token = t.token /\ go.on = t.on BY <2>1 DEF Same, Fields
  <2>5. Upon(go, {"retoken"}) => t.kind = "dingtalk1" BY <2>1, <1>5 DEF Upon
  <2> QED BY <1>b, <1>3, <1>4, <2>2, <2>3, <2>4, <2>5, RetryIsGood DEF Base, Typed
<1>7. Good(t, save)
  <2>0. t.req.of \in Slots BY <1>4 DEF Flying, Base, Typed, RequestSet
  <2>1. /\ Same(t, w, {"copy"}) /\ w.copy \in [Platforms -> Records]
        /\ \A p \in Platforms : Owns(w.copy[p]) /\ w.copy[p].ticket = t.copy[p].ticket
    BY <1>4, <2>0, WithAgentFields
  <2> HIDE DEF w
  <2>2. /\ Same(w, save, {"pc", "after"}) /\ save.pc = "save" /\ save.after = AfterRefusal(t)
    BY <2>1, <1>4 DEF Same, Base, Typed, Fields
  <2> HIDE DEF save
  <2>3. Retries(save) BY <2>2, <1>5 DEF Retries, Upon
  <2>4. Same(t, save, {"pc", "after", "copy", "token", "on"}) BY <2>1, <2>2 DEF Same
  <2>5. save.copy = w.copy /\ save.token = t.token /\ save.on = t.on BY <2>1, <2>2 DEF Same, Fields
  <2>6. Upon(save, {"retoken"}) => t.kind = "dingtalk1" BY <2>2, <1>5 DEF Upon
  <2> QED BY <1>b, <1>3, <1>4, <2>1, <2>3, <2>4, <2>5, <2>6, RetryIsGood DEF Base, Typed
<1>8. Good(t, GivenUp(t)) BY <1>4, FailedIsGood
<1>9. Reads(t, t) BY <1>1, ReadsKept
<1> QED BY <1>2, <1>4, <1>6, <1>7, <1>8, <1>9, GiveUpIsGood DEF t

\* or with a new token.
LEMMA NewTokenIsGood ==
  ASSUME NEW s \in Sends, SendInv(task[s]), NewToken(s)
  PROVE  \E u : Set(s, u) /\ Good(task[s], u)
<1> DEFINE t == task[s]
           p == t.req.on
           c == IF p = "feishu" /\ t.req.of = NoTenant THEN OwnTenant ELSE t.req.of
           k == KeepToken(t, p, c)
           v == UseToken(k, p, t.req.of, c)
           new == [v EXCEPT !.on = p, !.pc = "save"]
           again == [new EXCEPT !.after = "resolve", !.again = TRUE, !.left = Users, !.ready = {}]
           once == [new EXCEPT !.after = "repost"]
<1>1. t.pc = "retoken" \/ (t.pc = "refused" /\ p = "feishu") BY DEF NewToken, Step
<1>2. (p = "feishu" /\ Set(s, once)) \/ (p = "dingtalk" /\ Set(s, again)) \/ GiveUp(s, t)
  BY Zenon DEF NewToken
<1>b. SendInv(t) OBVIOUS
<1> HIDE DEF t
<1>3. Retries(t) BY <1>1 DEF Retries, Upon
<1>4. Flying(t) /\ Base(t) BY <1>b, <1>3, RetryLoaded DEF Flying
<1>5. t.req.of \in Slots BY <1>4 DEF Flying, Base, Typed, RequestSet
<1>6. /\ c \in Slots /\ c \in TokensOf(t.req.of)
      /\ p = "dingtalk" => t.kind = "dingtalk1" /\ t.pc = "retoken"
      /\ p = "feishu" => t.kind = "third1"
      /\ p \in Platforms
  <2>1. c \in Slots /\ c \in TokensOf(t.req.of)
    BY <1>5, ThirdPartyAssumption DEF Slots, TokensOf
  <2> QED BY <1>b, <1>1, <1>3, <2>1 DEF SendInv, Placed, Upon, Platforms
<1> HIDE DEF p, c
<1>7. /\ Same(t, k, {"copy"}) /\ k.copy \in [Platforms -> Records]
      /\ \A q \in Platforms : Owns(k.copy[q]) /\ k.copy[q].ticket = t.copy[q].ticket
  BY <1>4, <1>6, KeepTokenFields
<1> HIDE DEF k
<1>8. Base(k)
  <2>1. /\ k.queue = t.queue /\ k.kind = t.kind /\ k.got = t.got /\ k.company = t.company
        /\ k.failed = t.failed /\ k.pc = t.pc /\ k.on = t.on /\ k.stale = t.stale /\ k.left = t.left
        /\ k.ready = t.ready /\ k.token = t.token /\ k.tried = t.tried
    BY <1>7 DEF Same, Fields
  <2> QED BY <1>4, <1>7, <2>1 DEF Base, Typed, Kinded, Told, Same
<1>9. /\ Same(k, v, {"token"}) /\ v.token \in [Platforms -> [Slots -> Slots \cup {None}]]
      /\ \A q \in Platforms, d \in Slots : v.token[q][d] \in TokensOf(d)
  BY <1>5, <1>6, <1>8, UseTokenFields
<1> HIDE DEF v
<1>c. /\ v.queue = t.queue /\ v.kind = t.kind /\ v.got = t.got /\ v.company = t.company /\ v.req = t.req
      /\ v.failed = t.failed /\ v.stale = t.stale /\ v.copy = k.copy /\ v.tried = t.tried
      /\ DOMAIN v = Fields /\ Same(t, v, {"copy", "token"})
  BY <1>4, <1>7, <1>9 DEF Same, Fields, Base, Typed
<1>10. ASSUME p = "feishu" PROVE Good(t, once)
  <2>1. /\ Same(v, once, {"pc", "after", "on"}) /\ once.pc = "save" /\ once.after = "repost" /\ once.on = p
    BY <1>c DEF Same, Fields
  <2> HIDE DEF once
  <2>3. Retries(once) BY <2>1 DEF Retries, Upon
  <2>4. Same(t, once, {"pc", "after", "copy", "token", "on"}) BY <2>1, <1>c DEF Same
  <2>5. once.copy = k.copy /\ once.token = v.token BY <2>1, <1>c DEF Same, Fields
  <2>6. ~Upon(once, {"retoken"}) BY <2>1 DEF Upon
  <2> QED BY <1>b, <1>3, <1>6, <1>7, <1>9, <1>10, <2>1, <2>3, <2>4, <2>5, <2>6, RetryIsGood
<1>11. ASSUME p = "dingtalk" PROVE Good(t, again)
  <2>1. /\ Same(v, again, {"pc", "after", "on", "again", "left", "ready"})
        /\ again.pc = "save" /\ again.after = "resolve" /\ again.on = p
        /\ again.left = Users /\ again.ready = {}
    BY <1>c DEF Same, Fields
  <2> HIDE DEF again
  <2>a. /\ again.queue = t.queue /\ again.kind = t.kind /\ again.got = t.got /\ again.company = t.company
        /\ again.failed = t.failed /\ again.stale = t.stale /\ again.copy = k.copy /\ again.req = t.req
        /\ again.tried = t.tried /\ again.token = v.token /\ DOMAIN again = Fields
    BY <1>c, <2>1 DEF Same, Fields
  <2>2. t.kind = "dingtalk1" BY <1>6, <1>11
  <2>3. Typed(again)
    BY <1>4, <1>6, <1>7, <1>9, <2>1, <2>a DEF Base, Typed
  <2>4. Kinded(again) BY <1>4, <1>11, <2>1, <2>2, <2>a DEF Base, Kinded
  <2>5. Gathers(again) /\ ~Posts(again) /\ ~Retries(again) BY <2>1 DEF Gathers, Posts, Retries, Upon
  <2>6. Placed(again)
    <3>1. t.req \in RequestSet BY <1>4 DEF Flying, Base, Typed
    <3>2. Older("dingtalk1") /\ "dingtalk" \in Serves("dingtalk1") BY DEF Older, Serves
    <3> QED BY <1>11, <2>1, <2>2, <2>a, <2>5, <3>1, <3>2 DEF Placed, Upon, p
  <2>7. Counted(again)
    <3>1. NothingSent(t) BY <1>4, <1>b, <1>3, <2>2 DEF SendInv, Counted, Posts, Flying
    <3> QED BY <2>a, <2>5, <3>1 DEF Counted, NothingSent
  <2>8. Owned(again) BY <1>4, <1>7, <1>9, <2>a, <2>5 DEF Owned, Base, Told
  <2>9. Remembered(again) BY <2>2, <2>a DEF Remembered, Older
  <2>10. Reads(t, again)
    <3>1. t.on = "dingtalk" BY <1>4, <2>2 DEF Base, Kinded
    <3> QED BY <1>6, <1>7, <1>11, <2>1, <2>a, <3>1, ReadsKept
  <2> QED BY <2>3, <2>4, <2>6, <2>7, <2>8, <2>9, <2>10 DEF Good, SendInv
<1>12. Reads(t, t) BY <1>1, ReadsKept
<1> QED BY <1>2, <1>4, <1>10, <1>11, <1>12, GiveUpIsGood DEF t

\* The requests have all been sent.
LEMMA SentIsGood ==
  ASSUME NEW s \in Sends, SendInv(task[s]), Sent(s)
  PROVE  \E u : Set(s, u) /\ Good(task[s], u)
<1> DEFINE t == task[s]
           u == [t EXCEPT !.pc = "done", !.ok = TRUE]
<1>1. t.pc = "post" /\ t.queue = {} /\ (Set(s, u) \/ Set(s, GivenUp(t)))
  BY DEF Sent, Step, End, GivenUp
<1>b. SendInv(t) OBVIOUS
<1> HIDE DEF t
<1>2. Base(t) /\ Posts(t) BY <1>b, <1>1, BaseHolds DEF Posts
<1>3. Same(t, u, {"pc", "ok"}) /\ u.pc = "done" BY <1>2 DEF Same, Base, Typed, Fields
<1> HIDE DEF u
<1>a. /\ u.kind = t.kind /\ u.tried = t.tried /\ u.company = t.company
      /\ u.failed = t.failed /\ u.on = t.on
  BY <1>3 DEF Same, Fields
<1>4. Typed(u) BY <1>2, <1>3 DEF Base, Typed, Same, Fields
<1>5. Kinded(u) BY <1>2, <1>a DEF Base, Kinded
<1>6. ~Gathers(u) /\ ~Posts(u) /\ ~Retries(u) BY <1>3 DEF Gathers, Posts, Retries, Upon
<1>7. Placed(u) BY <1>3, <1>6 DEF Placed, Upon
<1>8. Owned(u) BY <1>2, <1>3, <1>6 DEF Owned, Base, Told, Same, Fields
<1>9. Remembered(u)
  <2> SUFFICES ASSUME ~Older(u.kind), NEW v \in Users
               PROVE  v \in u.failed \/ HasTried(u, v) \/ NoAccount(u, v)
    BY <1>6 DEF Remembered
  <2>1. Remembers(t, v) BY <1>b, <1>2, <1>a DEF SendInv, Remembered
  <2> QED BY <1>1, <1>a, <2>1 DEF Remembers, HasTried, NoAccount
<1>10. Reads(t, u) BY <1>3 DEF Reads, HasRead
<1>11. Counted(u) BY <1>6 DEF Counted
<1> QED BY <1>1, <1>2, <1>4, <1>5, <1>7, <1>8, <1>9, <1>10, <1>11, FailedIsGood DEF Good, SendInv, t

\* A record has been written: the sender goes on.
SavedTask(t) == [t EXCEPT !.pc = t.after]
\* A record that has been saved: the send goes on,
LEMMA SavedIsGood == ASSUME NEW t, SendInv(t), t.pc = "save" PROVE Good(t, SavedTask(t))
<1> DEFINE u == SavedTask(t)
<1>1. Same(t, u, {"pc"}) /\ u.pc = t.after
  BY DEF SavedTask, SendInv, Same, Typed, Fields
<1> HIDE DEF u
<1>a. /\ u.queue = t.queue /\ u.req = t.req /\ u.kind = t.kind /\ u.tried = t.tried /\ u.company = t.company
      /\ u.failed = t.failed /\ u.stale = t.stale /\ u.got = t.got /\ u.left = t.left /\ u.ready = t.ready
      /\ u.copy = t.copy /\ u.token = t.token /\ u.on = t.on /\ u.cur = t.cur /\ u.again = t.again
  BY <1>1 DEF Same, Fields
<1>2. Base(t) BY BaseHolds
<1>3. t.after \in {"other", "agent", "resolve", "account", "retoken", "repost"}
  BY DEF SendInv, Placed, Gathers, Posts, Retries, Upon
<1>4. Typed(u) BY <1>1, <1>2 DEF Base, Typed, Same, Fields
<1>5. Kinded(u) BY <1>2, <1>a DEF Base, Kinded
<1>6. (Gathers(u) <=> Gathers(t)) /\ (Posts(u) <=> Posts(t)) /\ (Retries(u) <=> Retries(t))
  BY <1>1, <1>3 DEF Gathers, Posts, Retries, Upon
<1>7. Placed(u)
  <2>1. \A x : Upon(u, {x}) => Upon(t, {x}) BY <1>1, <1>3 DEF Upon
  <2>2. Upon(u, {"other", "agent"}) => Upon(t, {"other", "agent"}) BY <1>1, <1>3 DEF Upon
  <2>3. Upon(u, {"resolve", "account"}) => Upon(t, {"resolve", "account"}) BY <1>1, <1>3 DEF Upon
  <2> QED BY <1>1, <1>3, <1>6, <1>a, <2>1, <2>2, <2>3 DEF SendInv, Placed
<1>8. Counted(u) BY <1>a, <1>6 DEF SendInv, Counted, Apart, OneOnly, Unsent, NothingSent
<1>9. Owned(u) BY <1>a, <1>6 DEF SendInv, Owned, Told, Addressed
<1>10. Remembered(u)
  <2>1. Gathers(t) => Older(t.kind) BY DEF SendInv, Placed
  <2> QED BY <1>1, <1>3, <1>a, <1>6, <2>1 DEF SendInv, Remembered, Remembers, HasTried, NoAccount
<1>11. Reads(t, u) BY <1>a, ReadsKept
<1> QED BY <1>4, <1>5, <1>7, <1>8, <1>9, <1>10, <1>11 DEF Good, SendInv, u

\* and the record holds what the send remembered.
LEMMA SaveIsGood ==
  ASSUME NEW s \in Sends, SendInv(task[s]), Save(s)
  PROVE  /\ task[s].pc = "save" /\ task[s].on \in Platforms
         /\ \E u : /\ Good(task[s], u)
                   /\ \/ Stored(s, task[s].on, task[s].copy[task[s].on], u)
                      \/ Set(s, u) /\ UNCHANGED record
<1> DEFINE t == task[s]
<1>1. t.pc = "save" BY DEF Save, Step
<1>2. \/ Stored(s, t.on, t.copy[t.on], SavedTask(t))
      \/ UNCHANGED record /\ (Set(s, SavedTask(t)) \/ Set(s, GivenUp(t)))
      \/ UNCHANGED record /\ t.req # None /\ GiveUp(s, t)
  BY Zenon DEF Save, SavedTask, End, GivenUp
<1>b. SendInv(t) OBVIOUS
<1>0. (t.req.on = "dingtalk" /\ Older(t.kind) /\ GiveUp(s, t)) => Set(s, GivenUp(t))
  BY DEF GiveUp, End, GivenUp
<1> HIDE DEF t
<1>3. Base(t) /\ Good(t, SavedTask(t)) /\ Good(t, GivenUp(t)) BY <1>1, <1>b, BaseHolds, SavedIsGood, FailedIsGood
<1>4. ASSUME t.req # None, GiveUp(s, t) PROVE \E u : Set(s, u) /\ Good(t, u)
  <2>1. CASE Gathers(t)
    <3>1. t.kind = "dingtalk1" /\ t.req.on = "dingtalk" BY <1>b, <1>4, <2>1 DEF SendInv, Placed
    <3> QED BY <1>0, <1>3, <1>4, <3>1 DEF Older
  <2>2. CASE Retries(t)
    <3>1. Flying(t) BY <1>b, <2>2, RetryLoaded
    <3>2. Reads(t, t) BY <1>1, ReadsKept
    <3> QED BY <1>4, <3>1, <3>2, GiveUpIsGood DEF t
  <2> QED BY <1>1, <1>b, <2>1, <2>2 DEF SendInv, Placed, Posts
<1>5. t.on \in Platforms
  <2>1. t.kind \in {"mail1", "mail2", "feishu1", "feishu2",
                      "dingtalk1", "dingtalk2", "third1", "third2"}
    BY <1>3, ThirdPartyAssumption DEF Base
  <2> QED BY <1>1, <1>3, <1>b, <2>1 DEF SendInv, Placed, Base, Kinded, Platforms
<1> QED BY <1>1, <1>2, <1>3, <1>4, <1>5 DEF t

---------------------------------------------------------------------------
\* A sender that gathers accounts.  Kept(t, u) is what most of its steps leave.
Spared == {"pc", "after", "copy", "token", "left", "cur", "ready", "failed"}
Tokened(u) == /\ u.copy \in [Platforms -> Records] /\ u.token \in [Platforms -> [Slots -> Slots \cup {None}]]
              /\ \A p \in Platforms : Owns(u.copy[p]) /\ \A c \in Slots : u.token[p][c] \in TokensOf(c)
Listed(t) ==
  /\ \A u \in Users : u \in t.left \/ Put(t, u) \/ NoAccount(t, u) \/ (t.pc = "account" /\ t.cur[1] = u)
  /\ \A u \in Users : <<u, "dingtalk">> \in t.ready => t.token["dingtalk"][TenantOf[u]] # None

\* Going through the targets changes only what Gathers speaks of.
LEMMA GatherIsGood ==
  ASSUME NEW t, NEW u, SendInv(t), Gathers(t), Gathers(u), t.pc # "load", Same(t, u, Spared),
         u.left \subseteq Users, u.failed \subseteq Users, u.ready \subseteq Users \X Channels,
         Tokened(u), \A p \in Platforms : u.copy[p].ticket = t.copy[p].ticket,
         Placed(u), ~Older(t.kind) => Listed(u)
  PROVE  Good(t, u)
<1>a. /\ u.queue = t.queue /\ u.req = t.req /\ u.kind = t.kind /\ u.tried = t.tried /\ u.company = t.company
      /\ u.stale = t.stale /\ u.got = t.got /\ u.on = t.on /\ DOMAIN u = DOMAIN t
  BY DEF Same, Spared, Fields
<1>1. t.pc \notin {"idle", "done", "load"} /\ u.pc # "done" BY DEF Gathers, Upon
<1>2. Base(t) BY <1>1, BaseHolds
<1>3. ~Posts(u) /\ ~Retries(u) BY DEF Gathers, Posts, Retries, Upon
<1>4. Typed(u) BY <1>2, <1>a DEF Typed, Base, Tokened
<1>5. Kinded(u) BY <1>2, <1>a DEF Base, Kinded
<1>6. Counted(u) BY <1>3, <1>a DEF SendInv, Counted, NothingSent
<1>7. Owned(u) BY <1>2, <1>3, <1>a DEF Owned, Base, Told, Tokened
<1>8. Remembered(u) BY <1>1, <1>3, <1>a DEF Remembered, Listed
<1>9. Reads(t, u) BY <1>1, <1>a, ReadsKept
<1> QED BY <1>4, <1>5, <1>6, <1>7, <1>8, <1>9 DEF Good, SendInv

\* The account that is looked at has been put down, or its user reported.
AtAccount(t) == SendInv(t) /\ t.pc = "account"
Settled(t) == AtAccount(t) /\ (~Older(t.kind) => Put(t, t.cur[1]))

\* A send that looks at one account of a user.
LEMMA AtAccountFacts ==
  ASSUME NEW t, AtAccount(t)
  PROVE  /\ Base(t) /\ Gathers(t) /\ Tokened(t) /\ DOMAIN t = Fields
         /\ t.cur \in Users \X Nat /\ t.cur[1] \in Users
         /\ t.cur[2] \in 1 .. Len(AccountsOf(t.kind, t.cur[1]))
         /\ t.left \subseteq Users /\ t.failed \subseteq Users /\ t.ready \subseteq Users \X Channels
         /\ \A a \in t.ready : a[2] \in Serves(t.kind)
<1>1. Base(t) /\ Gathers(t) BY BaseHolds DEF AtAccount, Gathers, Upon
<1>2. Upon(t, {"account"}) BY DEF Upon, AtAccount
<1> QED BY <1>1, <1>2 DEF AtAccount, SendInv, Placed, Base, Typed, Tokened

\* An account that is served: a request is made ready.
LEMMA ReadyIsGood ==
  ASSUME NEW t, AtAccount(t), NEW p \in Channels, p \in Serves(t.kind),
         ~Older(t.kind) /\ p = "dingtalk" => t.token["dingtalk"][TenantOf[t.cur[1]]] # None
  PROVE  /\ Good(t, Ready(t, p)) /\ Settled(Ready(t, p))
         /\ Same(t, Ready(t, p), {"ready"})
<1> DEFINE u == Ready(t, p)
<1>1. Same(t, u, {"ready"}) /\ u.ready = t.ready \cup {<<t.cur[1], p>>}
  BY AtAccountFacts DEF Ready, Same, Fields
<1> HIDE DEF u
<1>a. /\ u.queue = t.queue /\ u.req = t.req /\ u.kind = t.kind /\ u.pc = t.pc /\ u.after = t.after
      /\ u.on = t.on /\ u.cur = t.cur /\ u.copy = t.copy /\ u.token = t.token /\ u.left = t.left
      /\ u.failed = t.failed /\ u.again = t.again /\ Same(t, u, Spared)
  BY <1>1 DEF Same, Fields, Spared
<1>2. u.pc = "account" /\ Gathers(u) BY <1>a DEF AtAccount, Gathers, Upon
<1>3. u.ready \subseteq Users \X Channels /\ \A a \in u.ready : a[2] \in Serves(u.kind)
  BY <1>1, <1>a, AtAccountFacts
<1>4. Placed(u)
  <2>1. ~Posts(u) /\ ~Retries(u) BY <1>2 DEF Gathers, Posts, Retries, Upon
  <2> QED BY <1>a, <1>2, <1>3, <2>1, AtAccountFacts DEF AtAccount, SendInv, Placed, Upon
<1>5. ~Older(t.kind) => Listed(u)
  BY <1>1, <1>2, <1>a, AtAccountFacts DEF AtAccount, SendInv, Remembered, Listed, Put, NoAccount
<1>6. Good(t, u)
  BY <1>a, <1>2, <1>3, <1>4, <1>5, AtAccountFacts, GatherIsGood DEF AtAccount, Tokened
<1>7. Put(u, u.cur[1]) BY <1>1, <1>a DEF Put
<1> QED BY <1>1, <1>2, <1>6, <1>7 DEF Settled, AtAccount, Good, u

\* No account is left: the target is reported.
LEMMA UnknownIsGood ==
  ASSUME NEW t, AtAccount(t)
  PROVE  Good(t, Unknown(t)) /\ Settled(Unknown(t)) /\ Same(t, Unknown(t), {"failed"})
<1> DEFINE u == Unknown(t)
<1>1. Same(t, u, {"failed"}) /\ u.failed = t.failed \cup {t.cur[1]}
  BY AtAccountFacts DEF Unknown, Same, Fields
<1> HIDE DEF u
<1>a. /\ u.queue = t.queue /\ u.req = t.req /\ u.kind = t.kind /\ u.pc = t.pc /\ u.after = t.after
      /\ u.on = t.on /\ u.cur = t.cur /\ u.copy = t.copy /\ u.token = t.token /\ u.left = t.left
      /\ u.ready = t.ready /\ u.again = t.again /\ Same(t, u, Spared)
  BY <1>1 DEF Same, Fields, Spared
<1>2. u.pc = "account" /\ Gathers(u) BY <1>a DEF AtAccount, Gathers, Upon
<1>3. u.failed \subseteq Users BY <1>1, AtAccountFacts
<1>4. Placed(u)
  <2>1. ~Posts(u) /\ ~Retries(u) BY <1>2 DEF Gathers, Posts, Retries, Upon
  <2> QED BY <1>a, <1>2, <2>1, AtAccountFacts DEF AtAccount, SendInv, Placed, Upon
<1>5. ~Older(t.kind) => Listed(u)
  BY <1>1, <1>2, <1>a, AtAccountFacts DEF AtAccount, SendInv, Remembered, Listed, Put, NoAccount
<1>6. Good(t, u)
  BY <1>a, <1>2, <1>3, <1>4, <1>5, AtAccountFacts, GatherIsGood DEF AtAccount, Tokened
<1>7. Put(u, u.cur[1]) BY <1>1, <1>a DEF Put
<1> QED BY <1>1, <1>2, <1>6, <1>7 DEF Settled, AtAccount, Good, u

\* The token in the record is used.
LEMMA UseTokenIsGood ==
  ASSUME NEW t, AtAccount(t), NEW p \in Platforms, NEW c \in Tenants,
         p = "dingtalk" => "dingtalk" \in Serves(t.kind)
  PROVE  LET u == UseToken(t, p, c, c)
         IN  /\ Good(t, u) /\ AtAccount(u) /\ Same(t, u, {"token"}) /\ u.token[p][c] # None
<1> DEFINE u == UseToken(t, p, c, c)
<1>0. c \in Slots /\ c # None /\ c \in TokensOf(c) BY ThirdPartyAssumption DEF Slots, TokensOf
<1>1. /\ Same(t, u, {"token"}) /\ u.token \in [Platforms -> [Slots -> Slots \cup {None}]]
      /\ \A q \in Platforms, d \in Slots :
           u.token[q][d] = IF q = p /\ d = c THEN c ELSE t.token[q][d]
      /\ \A q \in Platforms, d \in Slots : u.token[q][d] \in TokensOf(d)
  BY <1>0, AtAccountFacts, UseTokenFields
<1> HIDE DEF u
<1>a. /\ u.queue = t.queue /\ u.req = t.req /\ u.kind = t.kind /\ u.pc = t.pc /\ u.after = t.after
      /\ u.on = t.on /\ u.cur = t.cur /\ u.copy = t.copy /\ u.left = t.left /\ u.failed = t.failed
      /\ u.ready = t.ready /\ u.again = t.again /\ Same(t, u, Spared)
  BY <1>1 DEF Same, Fields, Spared
<1>2. u.pc = "account" /\ Gathers(u) BY <1>a DEF AtAccount, Gathers, Upon
<1>3. Tokened(u) BY <1>1, <1>a, AtAccountFacts DEF Tokened
<1>4. Placed(u)
  <2>1. ~Posts(u) /\ ~Retries(u) BY <1>2 DEF Gathers, Posts, Retries, Upon
  <2>2. "dingtalk" \notin Serves(t.kind) => \A d \in Slots : u.token["dingtalk"][d] = None
    <3>1. "dingtalk" \notin Serves(t.kind) => \A d \in Slots : t.token["dingtalk"][d] = None
      BY AtAccountFacts DEF AtAccount, SendInv, Placed
    <3> QED BY <1>1, <3>1 DEF Platforms
  <2> QED BY <1>a, <1>2, <2>1, <2>2, AtAccountFacts DEF AtAccount, SendInv, Placed, Upon
<1>5. ~Older(t.kind) => Listed(u)
  <2>1. \A v \in Users : TenantOf[v] \in Slots BY ThirdPartyAssumption DEF Slots
  <2>2. \A d \in Slots : t.token["dingtalk"][d] # None => u.token["dingtalk"][d] # None
    BY <1>0, <1>1 DEF Platforms
  <2> QED BY <1>2, <1>a, <2>1, <2>2, AtAccountFacts
          DEF AtAccount, SendInv, Remembered, Listed, Put, NoAccount
<1>6. Good(t, u)
  BY <1>a, <1>2, <1>3, <1>4, <1>5, AtAccountFacts, GatherIsGood DEF AtAccount
<1> QED BY <1>0, <1>1, <1>2, <1>6 DEF AtAccount, Good, u

\* On to the next target,
LEMMA NextUserIsGood == ASSUME NEW t, Settled(t) PROVE Good(t, NextUser(t)) /\ NextUser(t).pc = "resolve"
<1> DEFINE u == NextUser(t)
<1>0. AtAccount(t) BY DEF Settled
<1>1. Same(t, u, {"pc"}) /\ u.pc = "resolve"
  BY <1>0, AtAccountFacts DEF NextUser, Same, Fields
<1> HIDE DEF u
<1>a. /\ u.queue = t.queue /\ u.req = t.req /\ u.kind = t.kind /\ u.after = t.after
      /\ u.on = t.on /\ u.cur = t.cur /\ u.copy = t.copy /\ u.token = t.token /\ u.left = t.left
      /\ u.ready = t.ready /\ u.failed = t.failed /\ u.again = t.again /\ Same(t, u, Spared)
  BY <1>1 DEF Same, Fields, Spared
<1>2. Gathers(u) BY <1>1 DEF Gathers, Upon
<1>4. Placed(u)
  <2>1. ~Posts(u) /\ ~Retries(u) BY <1>2 DEF Gathers, Posts, Retries, Upon
  <2> QED BY <1>0, <1>1, <1>a, <1>2, <2>1, AtAccountFacts DEF AtAccount, SendInv, Placed, Upon
<1>5. ~Older(t.kind) => Listed(u)
  BY <1>0, <1>a, AtAccountFacts DEF Settled, AtAccount, SendInv, Remembered, Listed, Put, NoAccount
<1> QED BY <1>0, <1>1, <1>a, <1>2, <1>4, <1>5, AtAccountFacts, GatherIsGood DEF AtAccount, Tokened, u

\* A sender looks at accounts that it serves.
LEMMA AccountsServed ==
  ASSUME NEW k \in Kinds, NEW u \in Users
  PROVE  /\ AccountsOf(k, u) \in Seq(Channels)
         /\ \A i \in 1 .. Len(AccountsOf(k, u)) : AccountsOf(k, u)[i] \in Serves(k)
<1> DEFINE as == AccountsOf(k, u)
<1>1. k \in {"mail1", "mail2", "feishu1", "feishu2", "dingtalk1", "dingtalk2", "third1", "third2"}
  BY ThirdPartyAssumption
<1>2. CASE k \in {"mail1", "mail2"}
  <2>1. as = <<"mail">> /\ Serves(k) = {"mail"} BY <1>2 DEF AccountsOf, Serves
  <2> QED BY <2>1 DEF Channels
<1>3. CASE k \in {"feishu1", "feishu2"}
  <2>1. as = <<"feishu">> /\ Serves(k) = {"feishu"} BY <1>3 DEF AccountsOf, Serves
  <2> QED BY <2>1 DEF Channels, Platforms
<1>4. CASE k \in {"dingtalk1", "dingtalk2"}
  <2>1. as = <<"dingtalk">> /\ Serves(k) = {"dingtalk"} BY <1>4 DEF AccountsOf, Serves
  <2> QED BY <2>1 DEF Channels, Platforms
<1>5. CASE k \in {"third1", "third2"}
  <2>1. as = Accounts[u] /\ Serves(k) = {"jumeaux", "feishu", "dingtalk"} BY <1>5 DEF AccountsOf, Serves
  <2>2. as \in Seq({"feishu", "dingtalk", "jumeaux"}) BY <2>1, ThirdPartyAssumption
  <2> HIDE DEF as
  <2>3. as \in Seq(Channels) /\ \A i \in 1 .. Len(as) : as[i] \in Serves(k)
    BY <2>1, <2>2 DEF Channels, Platforms
  <2> QED BY <2>3 DEF as
<1> QED BY <1>1, <1>2, <1>3, <1>4, <1>5

\* (accounts are a sequence)
LEMMA LenIsNat == ASSUME NEW t, AtAccount(t) PROVE Len(AccountsOf(t.kind, t.cur[1])) \in Nat
<1>1. AccountsOf(t.kind, t.cur[1]) \in Seq(Channels) BY AtAccountFacts, AccountsServed DEF Base
<1> QED BY <1>1

\* or to the next account of this one.
LEMMA OnwardsIsGood ==
  ASSUME NEW t, Settled(t)
  PROVE  Good(t, Onwards(t)) /\ Onwards(t).pc \in {"resolve", "account"}
<1>0. AtAccount(t) BY DEF Settled
<1>1. CASE ~(t.cur[2] < Len(AccountsOf(t.kind, t.cur[1])))
  BY <1>1, NextUserIsGood DEF Onwards, NextUser
<1>2. CASE t.cur[2] < Len(AccountsOf(t.kind, t.cur[1]))
  <2> DEFINE u == Onwards(t)
  <2>1. Same(t, u, {"pc", "cur"}) /\ u.pc = "account" /\ u.cur = [t.cur EXCEPT ![2] = t.cur[2] + 1]
    BY <1>0, <1>2, AtAccountFacts DEF Onwards, Same, Fields
  <2> HIDE DEF u
  <2>a. /\ u.queue = t.queue /\ u.req = t.req /\ u.kind = t.kind /\ u.after = t.after
        /\ u.on = t.on /\ u.copy = t.copy /\ u.token = t.token /\ u.left = t.left
        /\ u.ready = t.ready /\ u.failed = t.failed /\ u.again = t.again /\ Same(t, u, Spared)
    BY <2>1 DEF Same, Fields, Spared
  <2>b. u.cur \in Users \X Nat /\ u.cur[1] = t.cur[1] /\ u.cur[2] = t.cur[2] + 1
    BY <1>0, <2>1, AtAccountFacts
  <2>2. Gathers(u) BY <2>1 DEF Gathers, Upon
  <2>3. u.cur[2] \in 1 .. Len(AccountsOf(u.kind, u.cur[1]))
    BY <1>0, <1>2, <2>a, <2>b, AtAccountFacts, LenIsNat
  <2>4. Placed(u)
    <3>1. ~Posts(u) /\ ~Retries(u) BY <2>2 DEF Gathers, Posts, Retries, Upon
    <3> QED BY <1>0, <2>1, <2>a, <2>b, <2>2, <2>3, <3>1, AtAccountFacts DEF AtAccount, SendInv, Placed, Upon
  <2>5. ~Older(t.kind) => Listed(u)
    BY <1>0, <2>a, AtAccountFacts DEF Settled, AtAccount, SendInv, Remembered, Listed, Put, NoAccount
  <2> QED BY <1>0, <2>1, <2>a, <2>2, <2>4, <2>5, AtAccountFacts, GatherIsGood DEF AtAccount, Tokened, u
<1> QED BY <1>1, <1>2

\* Two changes in one step.
LEMMA GoodTransitive == ASSUME NEW t, NEW u, NEW v, Good(t, u), Good(u, v) PROVE Good(t, v)
  BY ReadsTransitive DEF Good

\* The account that On names is one of those its sender serves.
LEMMA OnFacts ==
  ASSUME NEW s \in Sends, SendInv(task[s]), NEW p, On(s, p)
  PROVE  AtAccount(task[s]) /\ p \in Channels /\ p \in Serves(task[s].kind)
<1> DEFINE t == task[s]
<1>1. AtAccount(t) /\ p = AccountsOf(t.kind, t.cur[1])[t.cur[2]]
  BY DEF On, Step, Kind, AtAccount
<1> HIDE DEF t
<1>2. t.kind \in Kinds /\ t.cur[1] \in Users /\ t.cur[2] \in 1 .. Len(AccountsOf(t.kind, t.cur[1]))
  BY <1>1, AtAccountFacts DEF Base
<1>3. p \in Serves(t.kind) BY <1>1, <1>2, AccountsServed
<1>4. AccountsOf(t.kind, t.cur[1]) \in Seq(Channels) BY <1>2, AccountsServed
<1>5. p \in Channels BY <1>1, <1>2, <1>4
<1> QED BY <1>1, <1>3, <1>5 DEF t

\* The accounts: mail and jumeaux,
LEMMA PlainAccountIsGood ==
  ASSUME NEW s \in Sends, SendInv(task[s]), PlainAccount(s)
  PROVE  \E u : Set(s, u) /\ Good(task[s], u)
<1> DEFINE t == task[s]
           p == AccountsOf(t.kind, t.cur[1])[t.cur[2]]
           u == Ready(t, p)
<1>1. On(s, p) /\ (~Older(t.kind) => p # "dingtalk")
  BY DEF PlainAccount, On, Kind
<1>2. Set(s, NextUser(u)) \/ Set(s, Onwards(u))
  BY DEF PlainAccount
<1>3. AtAccount(t) /\ p \in Channels /\ p \in Serves(t.kind) BY <1>1, OnFacts
<1>4. Good(t, u) /\ Settled(u) BY <1>1, <1>3, ReadyIsGood
<1> HIDE DEF t, p, u
<1>5. Good(t, NextUser(u)) /\ Good(t, Onwards(u))
  BY <1>4, NextUserIsGood, OnwardsIsGood, GoodTransitive
<1> QED BY <1>2, <1>5 DEF t

\* Feishu,
LEMMA FeishuAccountIsGood ==
  ASSUME NEW s \in Sends, SendInv(task[s]), FeishuAccount(s)
  PROVE  \E u : Set(s, u) /\ Good(task[s], u)
<1> DEFINE t == task[s]
           c == TenantOf[t.cur[1]]
           k == UseToken(t, "feishu", c, c)
           r == Ready(t, "feishu")
<1>1. On(s, "feishu") BY DEF FeishuAccount
<1>2. Set(s, NextUser(Ready(k, "feishu"))) \/ Set(s, Onwards(Unknown(r))) \/ Set(s, Onwards(Unknown(t)))
  BY DEF FeishuAccount
<1>3. AtAccount(t) /\ "feishu" \in Channels /\ "feishu" \in Serves(t.kind) BY <1>1, OnFacts
<1> HIDE DEF t
<1>4. c \in Tenants BY <1>3, AtAccountFacts, ThirdPartyAssumption
<1> HIDE DEF c
<1>5. Good(t, k) /\ AtAccount(k) /\ Same(t, k, {"token"})
  BY <1>3, <1>4, UseTokenIsGood DEF Platforms
<1> HIDE DEF k
<1>6. "feishu" \in Serves(k.kind) BY <1>3, <1>5 DEF Same, Fields
<1>7. Good(k, Ready(k, "feishu")) /\ Settled(Ready(k, "feishu")) BY <1>3, <1>5, <1>6, ReadyIsGood
<1>8. Good(t, r) /\ AtAccount(r) BY <1>3, ReadyIsGood DEF Settled
<1> HIDE DEF r
<1>9. Good(r, Unknown(r)) /\ Settled(Unknown(r)) BY <1>8, UnknownIsGood
<1>10. Good(t, Unknown(t)) /\ Settled(Unknown(t)) BY <1>3, UnknownIsGood
<1>11. Good(t, NextUser(Ready(k, "feishu")))
  BY <1>5, <1>7, NextUserIsGood, GoodTransitive
<1>12. Good(t, Onwards(Unknown(r))) BY <1>8, <1>9, OnwardsIsGood, GoodTransitive
<1>13. Good(t, Onwards(Unknown(t))) BY <1>10, OnwardsIsGood, GoodTransitive
<1> QED BY <1>2, <1>11, <1>12, <1>13 DEF t

\* DingTalk;
LEMMA DingTalkAccountIsGood ==
  ASSUME NEW s \in Sends, SendInv(task[s]), DingTalkAccount(s)
  PROVE  \E u : Set(s, u) /\ Good(task[s], u)
<1> DEFINE t == task[s]
           c == TenantOf[t.cur[1]]
           k == UseToken(t, "dingtalk", c, c)
<1>1. On(s, "dingtalk") BY DEF DingTalkAccount
<1>2. Set(s, NextUser(Ready(k, "dingtalk"))) \/ Set(s, GivenUp(t)) \/ Set(s, Onwards(Unknown(k)))
  BY DEF DingTalkAccount, End, GivenUp
<1>3. AtAccount(t) /\ "dingtalk" \in Channels /\ "dingtalk" \in Serves(t.kind) BY <1>1, OnFacts
<1> HIDE DEF t
<1>4. c \in Tenants BY <1>3, AtAccountFacts, ThirdPartyAssumption
<1>5. Good(t, k) /\ AtAccount(k) /\ Same(t, k, {"token"}) /\ k.token["dingtalk"][c] # None
  BY <1>3, <1>4, UseTokenIsGood DEF Platforms
<1>6. "dingtalk" \in Serves(k.kind) /\ k.token["dingtalk"][TenantOf[k.cur[1]]] # None
  <2> HIDE DEF k
  <2> QED BY <1>3, <1>5 DEF Same, Fields
<1> HIDE DEF k
<1>7. Good(k, Ready(k, "dingtalk")) /\ Settled(Ready(k, "dingtalk")) BY <1>3, <1>5, <1>6, ReadyIsGood
<1>9. Good(k, Unknown(k)) /\ Settled(Unknown(k)) BY <1>5, UnknownIsGood
<1>10. Good(t, GivenUp(t)) BY <1>3, AtAccountFacts, FailedIsGood
<1>11. Good(t, NextUser(Ready(k, "dingtalk")))
  BY <1>5, <1>7, NextUserIsGood, GoodTransitive
<1>12. Good(t, Onwards(Unknown(k))) BY <1>5, <1>9, OnwardsIsGood, GoodTransitive
<1> QED BY <1>2, <1>10, <1>11, <1>12 DEF t

\* requests of version 1 go on by themselves
LEMMA AfterIsGood ==
  ASSUME NEW t, AtAccount(t), Older(t.kind)
  PROVE  Good(t, After(t)) /\ After(t).pc \in {"resolve", "account"}
<1>1. Settled(t) BY DEF Settled
<1> QED BY <1>1, NextUserIsGood, OnwardsIsGood DEF After

\* A new token is kept, and written before sendThirdPartyMessage goes on.
LEMMA KeptIsGood ==
  ASSUME NEW t, SendInv(t), t.pc \in {"resolve", "account"}, t.kind = "third1", NEW c \in Slots
  PROVE  Good(t, [KeepToken(t, "dingtalk", c) EXCEPT !.pc = "save", !.after = t.pc])
<1> DEFINE k == KeepToken(t, "dingtalk", c)
           u == [k EXCEPT !.pc = "save", !.after = t.pc]
<1>1. Base(t) /\ Gathers(t) BY BaseHolds DEF Gathers, Upon
<1>2. /\ Same(t, k, {"copy"}) /\ k.copy \in [Platforms -> Records]
      /\ \A p \in Platforms : Owns(k.copy[p]) /\ k.copy[p].ticket = t.copy[p].ticket
  BY <1>1, KeepTokenFields DEF Platforms
<1> HIDE DEF k
<1>3. Same(k, u, {"pc", "after"}) /\ u.pc = "save" /\ u.after = t.pc
  BY <1>1, <1>2 DEF Same, Base, Typed, Fields
<1> HIDE DEF u
<1>a. /\ u.queue = t.queue /\ u.req = t.req /\ u.kind = t.kind /\ u.copy = k.copy
      /\ u.on = t.on /\ u.cur = t.cur /\ u.token = t.token /\ u.left = t.left /\ u.failed = t.failed
      /\ u.ready = t.ready /\ u.again = t.again /\ Same(t, u, Spared)
  BY <1>2, <1>3 DEF Same, Fields, Spared
<1>4. Gathers(u) /\ ~Posts(u) /\ ~Retries(u) BY <1>3 DEF Gathers, Posts, Retries, Upon
<1>5. Tokened(u) BY <1>1, <1>2, <1>a DEF Tokened, Base, Typed
<1>6. Placed(u)
  <2>1. Upon(u, {"account"}) => Upon(t, {"account"}) BY <1>3 DEF Upon
  <2>2. ~Upon(u, {"other", "agent"}) /\ ~Upon(u, {"other"}) /\ ~Upon(u, {"agent"}) /\ ~Upon(u, {"retoken"})
    BY <1>3 DEF Upon
  <2>3. Upon(t, {"resolve", "account"}) BY DEF Upon
  <2> QED BY <1>1, <1>3, <1>4, <1>a, <2>1, <2>2, <2>3 DEF SendInv, Placed, Older
<1>7. Good(t, u)
  BY <1>1, <1>2, <1>4, <1>5, <1>6, <1>a, GatherIsGood DEF Base, Typed, Older
<1> QED BY <1>7 DEF u, k

\* after an account on DingTalk.
LEMMA OlderDingTalkAccountIsGood ==
  ASSUME NEW s \in Sends, SendInv(task[s]), OlderDingTalkAccount(s)
  PROVE  \E u : Set(s, u) /\ Good(task[s], u)
<1> DEFINE t == task[s]
           r == Ready(t, "dingtalk")
           found == After(r)
           kept == [KeepToken(found, "dingtalk", t.company["dingtalk"]) EXCEPT !.pc = "save", !.after = found.pc]
<1>1. On(s, "dingtalk") /\ Older(t.kind) BY DEF OlderDingTalkAccount, Kind
<1>2. Set(s, found) \/ Set(s, After(t)) \/ (t.kind = "third1" /\ Set(s, kept))
  BY DEF OlderDingTalkAccount
<1>3. AtAccount(t) /\ "dingtalk" \in Channels /\ "dingtalk" \in Serves(t.kind) BY <1>1, OnFacts
<1> HIDE DEF t
<1>4. Good(t, r) /\ AtAccount(r) /\ Same(t, r, {"ready"}) BY <1>1, <1>3, ReadyIsGood DEF Settled
<1> HIDE DEF r
<1>5. Older(r.kind) /\ r.kind = t.kind BY <1>1, <1>4 DEF Same, Fields
<1>6. Good(r, found) /\ found.pc \in {"resolve", "account"} BY <1>4, <1>5, AfterIsGood
<1>7. Good(t, After(t)) BY <1>1, <1>3, AfterIsGood
<1>8. found.kind = r.kind
  <2>1. DOMAIN r = Fields BY <1>4, AtAccountFacts
  <2> QED BY <2>1 DEF After, NextUser, Onwards, Fields
<1> HIDE DEF found
<1>9. t.company["dingtalk"] \in Slots
  BY <1>3, AtAccountFacts DEF Base, Typed, Platforms
<1>10. ASSUME t.kind = "third1" PROVE Good(found, kept)
  <2>1. SendInv(found) BY <1>6 DEF Good
  <2> QED BY <1>5, <1>6, <1>8, <1>9, <1>10, <2>1, KeptIsGood
<1>11. Good(t, found) BY <1>4, <1>6, GoodTransitive
<1>12. t.kind = "third1" => Good(t, kept)
  <2> HIDE DEF kept
  <2> QED BY <1>10, <1>11, GoodTransitive
<1> QED BY <1>2, <1>7, <1>11, <1>12 DEF t

\* A target is looked up,
LEMMA ResolveIsGood ==
  ASSUME NEW s \in Sends, SendInv(task[s]), Resolve(s)
  PROVE  \E u : Set(s, u) /\ Good(task[s], u)
<1> DEFINE t == task[s]
<1>0. t.pc = "resolve" /\ SendInv(t) BY DEF Resolve, Step
<1>1. PICK v \in t.left :
        LET x == [t EXCEPT !.left = @ \ {v}, !.cur = <<v, 1>>]
        IN  \/ Set(s, [x EXCEPT !.pc = IF AccountsOf(x.kind, v) = <<>> THEN "resolve" ELSE "account"])
            \/ Set(s, GivenUp(x)) \/ Set(s, IF Older(x.kind) THEN x ELSE Unknown(x))
  BY DEF Resolve, End, GivenUp
<1> DEFINE x == [t EXCEPT !.left = @ \ {v}, !.cur = <<v, 1>>]
           pc == IF AccountsOf(x.kind, v) = <<>> THEN "resolve" ELSE "account"
           y == [x EXCEPT !.pc = pc]
           z == Unknown(x)
<1> HIDE DEF t
<1>2. Base(t) /\ Gathers(t) BY <1>0, BaseHolds DEF Gathers, Upon
<1>3. Same(t, x, {"left", "cur"}) /\ x.left = t.left \ {v} /\ x.cur = <<v, 1>>
  BY <1>2 DEF Base, Typed, Same, Fields
<1> HIDE DEF x
<1>4. Same(x, y, {"pc"}) /\ y.pc = pc /\ Same(x, z, {"failed"}) /\ z.failed = x.failed \cup {v}
  BY <1>2, <1>3 DEF Base, Typed, Same, Fields, Unknown
<1>v. v \in Users /\ t.kind \in Kinds BY <1>2 DEF Base, Typed
<1>5. x.kind = t.kind /\ pc \in {"resolve", "account"} BY <1>3 DEF Same, Fields
\* What the three have in common.
<1>6. ASSUME NEW u, Same(t, u, {"pc", "left", "cur", "failed"}), u.left = t.left \ {v}, u.cur = <<v, 1>>,
             u.pc \in {"resolve", "account"}, u.pc = "account" => AccountsOf(t.kind, v) # <<>>,
             u.failed \in {t.failed, t.failed \cup {v}},
             Older(t.kind) \/ v \in u.failed \/ u.pc = "account" \/ AccountsOf(t.kind, v) = <<>>
      PROVE  Good(t, u)
  <2>a. /\ u.queue = t.queue /\ u.req = t.req /\ u.kind = t.kind /\ u.copy = t.copy
        /\ u.on = t.on /\ u.token = t.token /\ u.after = t.after
        /\ u.ready = t.ready /\ u.again = t.again /\ Same(t, u, Spared)
    BY <1>6 DEF Same, Fields, Spared
  <2>1. Gathers(u) /\ ~Posts(u) /\ ~Retries(u) BY <1>6 DEF Gathers, Posts, Retries, Upon
  <2>2. u.pc = "account" => u.cur \in Users \X Nat /\ u.cur[2] \in 1 .. Len(AccountsOf(u.kind, u.cur[1]))
    <3>1. AccountsOf(t.kind, v) \in Seq(Channels) BY <1>v, AccountsServed
    <3>2. u.pc = "account" => Len(AccountsOf(t.kind, v)) >= 1 BY <1>6, <3>1
    <3> QED BY <1>6, <1>v, <2>a, <3>1, <3>2
  <2>3. Placed(u)
    <3>1. Upon(t, {"resolve", "account"}) BY <1>0 DEF Upon
    <3> QED BY <1>0, <1>2, <1>6, <2>1, <2>2, <2>a, <3>1 DEF SendInv, Placed, Upon
  <2>4. ~Older(t.kind) => Listed(u)
    <3> SUFFICES ASSUME ~Older(t.kind) PROVE Listed(u)
      OBVIOUS
    <3>1. Listed(t) BY <1>0, <1>2 DEF SendInv, Remembered, Listed
    <3>2. ASSUME NEW w \in Users, w # v PROVE w \in u.left \/ Put(u, w) \/ NoAccount(u, w)
      BY <1>0, <1>6, <2>a, <3>1, <3>2 DEF Listed, Put, NoAccount
    <3>3. v \in u.failed \/ NoAccount(u, v) \/ (u.pc = "account" /\ u.cur[1] = v)
      BY <1>6, <2>a DEF NoAccount
    <3> QED BY <2>a, <3>1, <3>2, <3>3 DEF Listed, Put
  <2> QED BY <1>0, <1>2, <1>6, <1>v, <2>1, <2>3, <2>4, <2>a, GatherIsGood DEF Base, Typed, Tokened
<1>7. Good(t, y)
  <2>1. Same(t, y, {"pc", "left", "cur", "failed"}) /\ y.left = t.left \ {v} /\ y.cur = <<v, 1>> /\ y.failed = t.failed
    BY <1>3, <1>4 DEF Same, Fields
  <2>2. y.pc = "account" \/ AccountsOf(t.kind, v) = <<>> BY <1>4, <1>5
  <2>3. y.pc = "account" => AccountsOf(t.kind, v) # <<>> BY <1>4, <1>5
  <2> QED BY <1>4, <1>5, <1>6, <2>1, <2>2, <2>3
<1>8. Older(t.kind) => Good(t, x)
  <2>1. x.pc = "resolve" /\ x.failed = t.failed /\ Same(t, x, {"pc", "left", "cur", "failed"})
    BY <1>0, <1>3 DEF Same, Fields
  <2> QED BY <1>3, <1>6, <2>1
<1>9. Good(t, z)
  <2>1. /\ Same(t, z, {"pc", "left", "cur", "failed"}) /\ z.left = t.left \ {v} /\ z.cur = <<v, 1>>
        /\ z.failed = t.failed \cup {v} /\ z.pc = "resolve"
    BY <1>0, <1>3, <1>4 DEF Same, Fields
  <2> QED BY <1>6, <2>1
<1>10. Good(t, GivenUp(x))
  <2>1. Base(x)
    <3>1. /\ x.queue = t.queue /\ x.got = t.got /\ x.copy = t.copy /\ x.stale = t.stale /\ x.failed = t.failed
          /\ x.on = t.on /\ x.token = t.token /\ x.ready = t.ready /\ x.company = t.company
          /\ x.tried = t.tried /\ x.pc = t.pc /\ x.kind = t.kind /\ DOMAIN x = DOMAIN t
      BY <1>3 DEF Same, Fields
    <3> QED BY <1>2, <1>3, <3>1 DEF Base, Typed, Kinded, Told
  <2>2. Reads(t, x) BY <1>0, <1>3, ReadsKept DEF Same, Fields
  <2> QED BY <2>1, <2>2, FailedIsGood, ReadsTransitive DEF Good
<1> HIDE DEF y, z
<1> QED BY <1>1, <1>5, <1>7, <1>8, <1>9, <1>10 DEF t, x, y, z

---------------------------------------------------------------------------
\* What is queued when all accounts are known.
LEMMA QueueFacts ==
  ASSUME NEW t, SendInv(t), t.pc = "resolve", t.left = {}, NEW u, u.queue = Queue(t),
         u.kind = t.kind, u.company = t.company, u.failed = t.failed, u.tried = t.tried
  PROVE  /\ u.queue \subseteq RequestSet /\ Apart(u) /\ OneOnly(u)
         /\ \A q \in u.queue : q.on \in Serves(t.kind) /\ Addressed(u, q)
         /\ t.kind = "dingtalk1" => u.queue # {} /\ \A q \in u.queue : q.on = "dingtalk"
         /\ ~Older(t.kind) => \A v \in Users : Remembers(u, v)
<1> DEFINE Plain == {Request(p, NoTenant, To(t, p)) : p \in {q \in {"mail", "jumeaux"} : To(t, q) # {}}}
           Feishu == {Request("feishu", Tenant(t, v), {v}) : v \in To(t, "feishu")}
           OldDing == IF t.kind = "dingtalk1" \/ To(t, "dingtalk") # {}
                      THEN {Request("dingtalk", t.company["dingtalk"], To(t, "dingtalk"))} ELSE {}
           NewDing == {Request("dingtalk", c, {v \in To(t, "dingtalk") : TenantOf[v] = c}) : c \in Asked(t)}
           Ding == IF Older(t.kind) THEN OldDing ELSE NewDing
<1>1. u.queue = Plain \cup Feishu \cup Ding BY Zenon DEF Queue
<1>2. Base(t) /\ Gathers(t) BY BaseHolds DEF Gathers, Upon
<1>3. \A p : To(t, p) \subseteq Users BY DEF To
<1>4. \A v \in Users : TenantOf[v] \in Slots /\ TenantOf[v] \in Tenants BY ThirdPartyAssumption DEF Slots
<1>5. t.company["feishu"] \in Slots /\ t.company["dingtalk"] \in Slots BY <1>2 DEF Base, Typed, Platforms
<1>6. \A v \in Users, p \in Channels : v \in To(t, p) <=> <<v, p>> \in t.ready BY DEF To
<1>7. \A p : To(t, p) # {} => p \in Serves(t.kind)
  BY <1>2 DEF To, SendInv, Placed
<1>8. \A q \in Plain : q.on \in {"mail", "jumeaux"} /\ q.of = NoTenant /\ q.to = To(t, q.on) /\ q.to # {} /\ q \in RequestSet
                       /\ q = Request(q.on, NoTenant, To(t, q.on))
  BY <1>3 DEF Request, RequestSet, Channels, Slots
<1>9. \A q \in Feishu : \E v \in To(t, "feishu") : q.on = "feishu" /\ q.of = Tenant(t, v) /\ q.to = {v} /\ q \in RequestSet
                                                   /\ q = Request("feishu", Tenant(t, v), {v})
  BY <1>3, <1>4, <1>5 DEF Request, RequestSet, Channels, Platforms, Tenant
<1>10. ASSUME Older(t.kind) PROVE
         \A q \in Ding : /\ q.on = "dingtalk" /\ q.of = t.company["dingtalk"] /\ q.to = To(t, "dingtalk") /\ q \in RequestSet
                         /\ (t.kind = "dingtalk1" \/ To(t, "dingtalk") # {})
                         /\ q = Request("dingtalk", t.company["dingtalk"], To(t, "dingtalk"))
  BY <1>3, <1>5, <1>10 DEF Request, RequestSet, Channels, Platforms
<1>11. ASSUME ~Older(t.kind) PROVE
         \A q \in Ding : \E c \in Asked(t) : /\ q.on = "dingtalk" /\ q.of = c /\ q \in RequestSet
                                             /\ q.to = {v \in To(t, "dingtalk") : TenantOf[v] = c}
                                             /\ q = Request("dingtalk", c, {v \in To(t, "dingtalk") : TenantOf[v] = c})
  BY <1>3, <1>11 DEF Request, RequestSet, Channels, Platforms, Asked, Slots
<1>n. \A v \in To(t, "mail") : Request("mail", NoTenant, To(t, "mail")) \in Plain /\ v \in Request("mail", NoTenant, To(t, "mail")).to
  BY DEF Request
<1>j. \A v \in To(t, "jumeaux") : Request("jumeaux", NoTenant, To(t, "jumeaux")) \in Plain /\ v \in Request("jumeaux", NoTenant, To(t, "jumeaux")).to
  BY DEF Request
<1>f. \A v \in To(t, "feishu") : Request("feishu", Tenant(t, v), {v}) \in Feishu /\ v \in Request("feishu", Tenant(t, v), {v}).to
  BY DEF Request
<1>d. ASSUME ~Older(t.kind), NEW v \in To(t, "dingtalk") PROVE \E q \in Ding : v \in q.to
  <2>1. v \in Users BY <1>3
  <2>2. t.token["dingtalk"][TenantOf[v]] # None
    BY <1>2, <1>d, <2>1 DEF SendInv, Remembered, To
  <2>3. TenantOf[v] \in Asked(t) BY <1>4, <2>1, <2>2 DEF Asked
  <2>4. v \in Request("dingtalk", TenantOf[v], {w \in To(t, "dingtalk") : TenantOf[w] = TenantOf[v]}).to
    BY <2>1, <1>d DEF Request
  <2> QED BY <1>d, <2>3, <2>4
<1>k. t.kind = "dingtalk1" => Request("dingtalk", t.company["dingtalk"], To(t, "dingtalk")) \in Ding
  BY DEF Older
<1> HIDE DEF Plain, Feishu, Ding
<1>12. u.queue \subseteq RequestSet BY <1>1, <1>8, <1>9, <1>10, <1>11
<1>13. Apart(u)
  <2> SUFFICES ASSUME NEW q \in u.queue, NEW r \in u.queue, NEW v \in q.to \cap r.to, q.on = r.on PROVE q = r
    BY DEF Apart
  <2>1. CASE q \in Plain
    <3>1. r \in Plain BY <1>1, <1>8, <1>9, <1>10, <1>11, <2>1
    <3> QED BY <1>8, <2>1, <3>1
  <2>2. CASE q \in Feishu
    <3>1. r \in Feishu BY <1>1, <1>8, <1>9, <1>10, <1>11, <2>2
    <3> QED BY <1>9, <2>2, <3>1
  <2>3. CASE q \in Ding
    <3>1. r \in Ding BY <1>1, <1>8, <1>9, <1>10, <1>11, <2>3
    <3>2. CASE Older(t.kind) BY <1>10, <2>3, <3>1, <3>2
    <3>3. CASE ~Older(t.kind)
      <4>1. PICK c \in Asked(t) : /\ q.to = {w \in To(t, "dingtalk") : TenantOf[w] = c}
                                 /\ q = Request("dingtalk", c, {w \in To(t, "dingtalk") : TenantOf[w] = c})
        BY <1>11, <2>3, <3>3
      <4>2. PICK d \in Asked(t) : /\ r.to = {w \in To(t, "dingtalk") : TenantOf[w] = d}
                                 /\ r = Request("dingtalk", d, {w \in To(t, "dingtalk") : TenantOf[w] = d})
        BY <1>11, <3>1, <3>3
      <4>3. c = d BY <4>1, <4>2
      <4> QED BY <4>1, <4>2, <4>3
    <3> QED BY <3>2, <3>3
  <2> QED BY <1>1, <2>1, <2>2, <2>3
<1>14. \A q \in u.queue : q.on \in Serves(t.kind)
  <2>1. \A q \in Plain : q.on \in Serves(t.kind) BY <1>7, <1>8
  <2>2. \A q \in Feishu : q.on \in Serves(t.kind) BY <1>7, <1>9
  <2>3. \A q \in Ding : q.on \in Serves(t.kind)
    <3>1. CASE Older(t.kind) BY <1>7, <1>10, <3>1 DEF Serves
    <3>2. CASE ~Older(t.kind)
      <4>1. Asked(t) # {} => "dingtalk" \in Serves(t.kind)
        BY <1>2 DEF Asked, SendInv, Placed, Slots
      <4> QED BY <1>11, <3>2, <4>1
    <3> QED BY <3>1, <3>2
  <2> QED BY <1>1, <2>1, <2>2, <2>3
<1>15. t.kind = "dingtalk1" => u.queue # {} /\ \A q \in u.queue : q.on = "dingtalk"
  BY <1>1, <1>k, <1>14 DEF Serves
<1>16. OneOnly(u)
  <2> SUFFICES ASSUME t.kind = "dingtalk1", NEW q \in u.queue, NEW r \in u.queue PROVE q = r
    BY DEF OneOnly
  <2>1. q \in Ding /\ r \in Ding BY <1>1, <1>8, <1>9, <1>15
  <2>2. Older(t.kind) BY DEF Older
  <2> QED BY <1>10, <2>1, <2>2
<1>17. \A q \in u.queue : Addressed(u, q)
  <2>1. \A q \in Plain : Addressed(u, q) BY <1>8 DEF Addressed, Platforms
  <2>2. \A q \in Feishu : Addressed(u, q) BY <1>9 DEF Addressed, Tenant
  <2>3. \A q \in Ding : Addressed(u, q) BY <1>10, <1>11 DEF Addressed
  <2> QED BY <1>1, <2>1, <2>2, <2>3
<1>18. ASSUME ~Older(t.kind), NEW v \in Users PROVE Remembers(u, v)
  <2>1. Put(t, v) \/ NoAccount(t, v) BY <1>2, <1>18 DEF SendInv, Remembered
  <2>2. CASE v \in t.failed \/ NoAccount(t, v) BY <2>2 DEF Remembers, NoAccount
  <2>3. CASE \E p \in Channels : <<v, p>> \in t.ready
    <3>1. \E p \in {"mail", "jumeaux", "feishu", "dingtalk"} : v \in To(t, p)
      BY <2>3, <1>6 DEF Channels, Platforms
    <3>2. \E q \in u.queue : v \in q.to BY <3>1, <1>1, <1>n, <1>j, <1>f, <1>d, <1>18
    <3> QED BY <3>2 DEF Remembers
  <2> QED BY <2>1, <2>2, <2>3 DEF Put
<1> QED BY <1>12, <1>13, <1>14, <1>15, <1>16, <1>17, <1>18

\* and the last one has been.
LEMMA ResolvedIsGood ==
  ASSUME NEW s \in Sends, SendInv(task[s]), Resolved(s)
  PROVE  \E u : Set(s, u) /\ Good(task[s], u)
<1> DEFINE t == task[s]
           x == [t EXCEPT !.queue = Queue(t), !.cur = None]
           r == CHOOSE q \in x.queue : TRUE
           first == [x EXCEPT !.pc = "post"]
           again == [x EXCEPT !.pc = "repost", !.req = r]
           u == IF t.again THEN again ELSE first
<1>0. SendInv(t) /\ t.pc = "resolve" /\ t.left = {} BY DEF Resolved, Step
<1>2. Base(t) /\ Gathers(t) BY <1>0, BaseHolds DEF Gathers, Upon
<1>x. x.again = t.again BY <1>2 DEF Base, Typed, Fields
<1>1. Set(s, u) BY <1>x DEF Resolved
<1> HIDE DEF t
<1>3. Same(t, x, {"queue", "cur"}) /\ x.queue = Queue(t) BY <1>2 DEF Base, Typed, Same, Fields
<1> HIDE DEF x, r
<1>4. /\ Same(t, u, {"queue", "cur", "pc", "req"}) /\ u.queue = Queue(t)
      /\ u.pc = IF t.again THEN "repost" ELSE "post"
      /\ t.again => u.req = r
  BY <1>2, <1>3 DEF Base, Typed, Same, Fields
<1> HIDE DEF u
<1>a. /\ u.kind = t.kind /\ u.tried = t.tried /\ u.company = t.company /\ u.got = t.got
      /\ u.failed = t.failed /\ u.stale = t.stale /\ u.on = t.on /\ u.copy = t.copy
      /\ u.token = t.token /\ u.left = t.left /\ u.ready = t.ready /\ DOMAIN u = DOMAIN t
  BY <1>4 DEF Same, Fields
<1>5. /\ u.queue \subseteq RequestSet /\ Apart(u) /\ OneOnly(u)
      /\ \A q \in u.queue : q.on \in Serves(t.kind) /\ Addressed(u, q)
      /\ t.kind = "dingtalk1" => u.queue # {} /\ \A q \in u.queue : q.on = "dingtalk"
      /\ ~Older(t.kind) => \A v \in Users : Remembers(u, v)
  BY <1>0, <1>4, <1>a, QueueFacts
<1>6. NothingSent(u) BY <1>0, <1>2, <1>a DEF SendInv, Counted, NothingSent
<1>7. \A q \in u.queue : Unsent(u, q) BY <1>5, <1>6 DEF Unsent, NothingSent, RequestSet
<1>8. ~Gathers(u) /\ Posts(u) /\ (Retries(u) => t.again) BY <1>4 DEF Gathers, Posts, Retries, Upon
<1>9. t.again => t.kind = "dingtalk1" /\ u.req \in u.queue /\ u.req.on = "dingtalk"
  <2>1. t.again => t.kind = "dingtalk1" BY <1>0, <1>2 DEF SendInv, Placed
  <2>2. t.kind = "dingtalk1" => r \in x.queue BY <1>3, <1>4, <1>5 DEF r
  <2> QED BY <1>3, <1>4, <1>5, <2>1, <2>2
<1>10. Typed(u) BY <1>2, <1>a, <1>5 DEF Base, Typed
<1>11. Kinded(u) BY <1>2, <1>a DEF Base, Kinded
<1>12. Placed(u) BY <1>4, <1>5, <1>8, <1>9, <1>a DEF Placed, Upon
<1>13. Counted(u) BY <1>5, <1>6, <1>7, <1>8 DEF Counted
<1>14. Owned(u) BY <1>2, <1>5, <1>a DEF Owned, Base, Told
<1>15. Remembered(u) BY <1>4, <1>5, <1>8, <1>9, <1>a DEF Remembered, Older
<1>16. Reads(t, u) BY <1>0, <1>a, ReadsKept
<1> QED BY <1>1, <1>10, <1>11, <1>12, <1>13, <1>14, <1>15, <1>16 DEF Good, SendInv, t

---------------------------------------------------------------------------
\* The first steps: the record, and the token and the agent of version 1.
LEMMA StartSendIsGood ==
  ASSUME NEW s \in Sends, StartSend(s)
  PROVE  \E u : Set(s, u) /\ SendInv(u) /\ (\A p \in Platforms : ~HasRead(u, p)) /\ UNCHANGED record
<1>1. PICK k \in Kinds, f \in Companies \cup {NoTenant}, d \in Companies \cup {NoTenant} :
        /\ f # NoTenant => k \in {"feishu1", "third1"}
        /\ d # NoTenant => k \in {"dingtalk1", "third1"}
        /\ Set(s, [NoTask EXCEPT !.kind = k, !.company = [feishu |-> f, dingtalk |-> d],
                    !.left = Users, !.on = LoadFrom(k),
                    !.pc = IF LoadFrom(k) = None THEN "resolve" ELSE "load"])
  BY DEF StartSend
<1> DEFINE u == [NoTask EXCEPT !.kind = k, !.company = [feishu |-> f, dingtalk |-> d],
                    !.left = Users, !.on = LoadFrom(k),
                    !.pc = IF LoadFrom(k) = None THEN "resolve" ELSE "load"]
<1>2. /\ u.kind = k /\ u.company = [feishu |-> f, dingtalk |-> d] /\ u.left = Users /\ u.on = LoadFrom(k)
      /\ u.pc = IF LoadFrom(k) = None THEN "resolve" ELSE "load"
      /\ u.copy = [p \in Platforms |-> FreshRecord] /\ u.stale = [p \in Platforms |-> FALSE]
      /\ u.token = [p \in Platforms |-> [c \in Slots |-> None]]
      /\ u.cur = None /\ u.ready = {} /\ u.queue = {} /\ u.req = None /\ u.failed = {}
      /\ u.tried = {} /\ u.got = [v \in Users |-> [p \in Channels |-> 0]] /\ u.again = FALSE
      /\ u.after = None /\ DOMAIN u = Fields
  BY DEF NoTask, Fields
<1> HIDE DEF u
<1>3. k \in {"mail1", "mail2", "feishu1", "feishu2", "dingtalk1", "dingtalk2", "third1", "third2"}
  BY ThirdPartyAssumption
<1>4. /\ LoadFrom(k) \in Platforms \cup {None}
      /\ k \in {"feishu1", "third1"} => LoadFrom(k) = "feishu"
      /\ k \in {"dingtalk1", "dingtalk2", "third2"} => LoadFrom(k) = "dingtalk"
      /\ k \in {"mail1", "mail2", "feishu2"} => LoadFrom(k) = None
      /\ "feishu" # None /\ "dingtalk" # None
  BY <1>3, ThirdPartyAssumption DEF LoadFrom, Platforms
<1>5. FreshRecord \in Records /\ Owns(FreshRecord)
  BY ThirdPartyAssumption DEF FreshRecord, Records, Owns
<1>6. u.company \in [Platforms -> Slots]
  <2>1. f \in Slots /\ d \in Slots BY ThirdPartyAssumption DEF Slots
  <2> QED BY <1>2, <2>1 DEF Platforms
<1>7. Typed(u) BY <1>2, <1>4, <1>5, <1>6 DEF Typed
<1>8. Kinded(u) BY <1>2, <1>4 DEF Kinded, Platforms
<1>9. u.pc \in {"resolve", "load"} /\ Gathers(u) /\ ~Posts(u) /\ ~Retries(u)
  BY <1>2 DEF Gathers, Posts, Retries, Upon
<1>10. Placed(u) BY <1>2, <1>3, <1>4, <1>9 DEF Placed, Upon, Platforms
<1>11. Counted(u) BY <1>2, <1>9 DEF Counted, NothingSent
<1>12. Owned(u) BY <1>2, <1>5, <1>9 DEF Owned, Told, TokensOf
<1>13. Remembered(u) BY <1>2, <1>9 DEF Remembered
<1>14. \A p \in Platforms : ~HasRead(u, p) BY <1>2, <1>3, <1>4 DEF HasRead, Platforms
<1> QED BY <1>1, <1>7, <1>8, <1>10, <1>11, <1>12, <1>13, <1>14 DEF SendInv, u, StartSend

\* Records are of one of two platforms.
LEMMA OnAPlatform ==
  ASSUME NEW t, SendInv(t), t.pc \in {"load", "token", "save"}
  PROVE  t.on \in Platforms
<1>1. Base(t) BY BaseHolds
<1>2. t.kind \in {"mail1", "mail2", "feishu1", "feishu2", "dingtalk1", "dingtalk2", "third1", "third2"}
  BY <1>1, ThirdPartyAssumption DEF Base
<1> QED BY <1>1, <1>2 DEF SendInv, Placed, Base, Kinded, Platforms

\* Load reads the record of one platform, and knows of the other what it knew.
LEMMA LoadIsGood ==
  ASSUME NEW s \in Sends, SendInv(task[s]), Load(s),
         \A p \in Platforms : record[p] # NoRecord => record[p] \in Records /\ Owns(record[p])
  PROVE  \E u : /\ Set(s, u) /\ SendInv(u)
                /\ \/ Reads(task[s], u)
                   \/ \A p \in Platforms : HasRead(u, p) /\ ~u.stale[p] =>
                        \/ u.copy[p].ticket = record[p].ticket
                        \/ /\ HasRead(task[s], p) /\ ~task[s].stale[p]
                           /\ u.copy[p].ticket = task[s].copy[p].ticket
<1> DEFINE t == task[s]
           u == [t EXCEPT !.copy[t.on] = record[t.on], !.stale[t.on] = FALSE,
                          !.pc = IF Older(t.kind) THEN "token" ELSE "resolve"]
<1>0. SendInv(t) /\ t.pc = "load" BY DEF Load, Step
<1>1. (record[t.on] # NoRecord /\ Set(s, u)) \/ Set(s, GivenUp(t)) BY DEF Load, End, GivenUp
<1> HIDE DEF t
<1>2. Base(t) /\ Gathers(t) /\ t.on \in Platforms BY <1>0, BaseHolds, OnAPlatform DEF Gathers, Upon
<1>3. CASE Set(s, GivenUp(t)) BY <1>2, <1>3, FailedIsGood DEF Good, t
<1>4. CASE record[t.on] # NoRecord /\ Set(s, u)
  <2> DEFINE cs == t.copy
             ss == t.stale
  <2>1. /\ Same(t, u, {"copy", "stale", "pc"}) /\ u.copy = [cs EXCEPT ![t.on] = record[t.on]]
        /\ u.stale = [ss EXCEPT ![t.on] = FALSE]
        /\ u.pc = IF Older(t.kind) THEN "token" ELSE "resolve"
    BY <1>2 DEF Base, Typed, Same, Fields
  <2>2. cs \in [Platforms -> Records] /\ ss \in [Platforms -> BOOLEAN] /\ \A p \in Platforms : Owns(cs[p])
    BY <1>2 DEF Base, Typed
  <2> HIDE DEF u, cs, ss
  <2>3. record[t.on] \in Records /\ Owns(record[t.on]) BY <1>2, <1>4
  <2>4. /\ u.copy \in [Platforms -> Records] /\ u.stale \in [Platforms -> BOOLEAN]
        /\ \A p \in Platforms : Owns(u.copy[p])
        /\ \A p \in Platforms : p # t.on => u.copy[p] = cs[p] /\ u.stale[p] = ss[p]
        /\ u.copy[t.on] = record[t.on]
    BY <1>2, <2>1, <2>2, <2>3
  <2>a. /\ u.queue = t.queue /\ u.req = t.req /\ u.kind = t.kind /\ u.cur = t.cur
        /\ u.on = t.on /\ u.token = t.token /\ u.after = t.after /\ u.got = t.got /\ u.tried = t.tried
        /\ u.ready = t.ready /\ u.again = t.again /\ u.failed = t.failed /\ u.left = t.left
        /\ u.company = t.company /\ DOMAIN u = DOMAIN t
    BY <2>1 DEF Same, Fields
  <2>5. u.pc \in {"token", "resolve"} /\ Gathers(u) /\ ~Posts(u) /\ ~Retries(u)
    BY <2>1 DEF Gathers, Posts, Retries, Upon
  <2>6. Typed(u) BY <1>2, <2>4, <2>a DEF Base, Typed
  <2>7. Kinded(u) BY <1>2, <2>a DEF Base, Kinded
  <2>8. Placed(u)
    <3>1. t.kind = "third1" /\ u.pc = "resolve" => FALSE BY <2>1 DEF Older
    <3> QED BY <1>0, <1>2, <2>1, <2>5, <2>a, <3>1 DEF SendInv, Placed, Upon
  <2>9. Counted(u) BY <1>0, <1>2, <2>5, <2>a DEF SendInv, Counted, NothingSent
  <2>10. Owned(u) BY <1>2, <2>4, <2>5, <2>a DEF Owned, Base, Told
  <2>11. Remembered(u)
    BY <1>0, <1>2, <2>5, <2>a DEF SendInv, Remembered, Put, NoAccount
  <2>12. \A p \in Platforms : HasRead(u, p) /\ ~u.stale[p] /\ p # t.on =>
           HasRead(t, p) /\ ~t.stale[p] /\ u.copy[p].ticket = t.copy[p].ticket
    BY <1>0, <2>4, <2>5, <2>a DEF HasRead, cs, ss
  <2>13. \A p \in Platforms : HasRead(u, p) /\ ~u.stale[p] =>
           \/ u.copy[p].ticket = record[p].ticket
           \/ HasRead(t, p) /\ ~t.stale[p] /\ u.copy[p].ticket = t.copy[p].ticket
    BY <2>4, <2>12
  <2>14. SendInv(u) BY <2>6, <2>7, <2>8, <2>9, <2>10, <2>11 DEF SendInv
  <2> QED BY <1>4, <2>13, <2>14, Zenon DEF t, u
<1> QED BY <1>1, <1>3, <1>4

\* The remaining steps of a send:
LEMMA OtherIsGood ==
  ASSUME NEW s \in Sends, SendInv(task[s]), Other(s)
  PROVE  \E u : Set(s, u) /\ Good(task[s], u)
<1> DEFINE t == task[s]
           u == [t EXCEPT !.on = "dingtalk", !.pc = "load"]
<1>0. SendInv(t) /\ t.pc = "other" /\ Set(s, u) BY DEF Other, Step
<1> HIDE DEF t
<1>2. Base(t) /\ Gathers(t) /\ t.kind = "third1" /\ t.on = "feishu" BY <1>0, BaseHolds DEF Gathers, Upon, SendInv, Placed
<1>3. Same(t, u, {"on", "pc"}) /\ u.on = "dingtalk" /\ u.pc = "load" BY <1>2 DEF Base, Typed, Same, Fields
<1> HIDE DEF u
<1>a. /\ u.queue = t.queue /\ u.req = t.req /\ u.kind = t.kind /\ u.cur = t.cur
      /\ u.token = t.token /\ u.after = t.after /\ u.got = t.got /\ u.tried = t.tried
      /\ u.ready = t.ready /\ u.again = t.again /\ u.failed = t.failed /\ u.left = t.left
      /\ u.copy = t.copy /\ u.stale = t.stale /\ u.company = t.company /\ DOMAIN u = DOMAIN t
  BY <1>3 DEF Same, Fields
<1>5. Gathers(u) /\ ~Posts(u) /\ ~Retries(u) BY <1>3 DEF Gathers, Posts, Retries, Upon
<1>6. Typed(u) BY <1>2, <1>3, <1>a DEF Base, Typed, Platforms
<1>7. Kinded(u) BY <1>2, <1>3, <1>a DEF Base, Kinded, Platforms
<1>8. Placed(u) BY <1>0, <1>2, <1>3, <1>5, <1>a DEF SendInv, Placed, Upon
<1>9. Counted(u) BY <1>0, <1>2, <1>5, <1>a DEF SendInv, Counted, NothingSent
<1>10. Owned(u) BY <1>2, <1>5, <1>a DEF Owned, Base, Told
<1>11. Remembered(u) BY <1>2, <1>a DEF Remembered, Older
<1>12. Reads(t, u) BY <1>0, <1>2, <1>3, <1>a DEF Reads, HasRead, Platforms
<1> QED BY <1>0, <1>6, <1>7, <1>8, <1>9, <1>10, <1>11, <1>12 DEF Good, SendInv, t

\* What Token and Agent leave: a sender of version 1, before its targets.
LEMMA EarlyIsGood ==
  ASSUME NEW t, NEW u, SendInv(t), t.pc \in {"token", "agent"}, Same(t, u, {"pc", "after", "copy", "token"}),
         Tokened(u), \A p \in Platforms : u.copy[p].ticket = t.copy[p].ticket,
         Upon(u, {"other", "agent", "resolve"}),
         Upon(u, {"other"}) => t.kind = "third1" /\ t.on = "feishu",
         Upon(u, {"agent"}) => t.on = "dingtalk",
         t.kind = "third1" /\ Upon(u, {"resolve"}) => t.on = "dingtalk",
         "dingtalk" \notin Serves(t.kind) => \A c \in Slots : u.token["dingtalk"][c] = None
  PROVE  Good(t, u)
<1>2. Base(t) /\ Gathers(t) /\ Older(t.kind) BY BaseHolds DEF Gathers, Upon, SendInv, Placed
<1>a. /\ u.queue = t.queue /\ u.req = t.req /\ u.kind = t.kind /\ u.cur = t.cur
      /\ u.got = t.got /\ u.tried = t.tried /\ u.on = t.on
      /\ u.ready = t.ready /\ u.again = t.again /\ u.failed = t.failed /\ u.left = t.left
      /\ u.stale = t.stale /\ Same(t, u, Spared)
  BY DEF Same, Fields, Spared
<1>3. Gathers(u) /\ ~Posts(u) /\ ~Retries(u) /\ u.pc \notin {"load", "token"} /\ ~Upon(u, {"account"}) /\ ~Upon(u, {"retoken"})
      /\ (Upon(u, {"resolve", "account"}) => Upon(u, {"resolve"}))
  BY DEF Gathers, Posts, Retries, Upon
<1>4. t.kind \notin {"mail1", "mail2", "feishu2"} BY DEF SendInv, Placed
<1>5. Placed(u) BY <1>2, <1>3, <1>4, <1>a DEF SendInv, Placed
<1> QED BY <1>2, <1>3, <1>5, <1>a, GatherIsGood DEF Base, Typed

\* its tokens,
LEMMA TokenIsGood ==
  ASSUME NEW s \in Sends, SendInv(task[s]), Token(s)
  PROVE  \E u : Set(s, u) /\ Good(task[s], u)
<1> DEFINE t == task[s]
           c == t.company[t.on]
           k == IF Keeps(t, c) THEN KeepToken(t, t.on, c) ELSE t
           v == UseToken(k, t.on, c, c)
           w == UseToken(t, t.on, c, t.copy[t.on].token[c])
           ask == [v EXCEPT !.pc = "save", !.after = AfterToken(t)]
           use == [w EXCEPT !.pc = AfterToken(t)]
<1>0. SendInv(t) /\ t.pc = "token" BY DEF Token, Step
<1>1. Set(s, ask) \/ Set(s, GivenUp(t)) \/ Set(s, use) BY DEF Token, End, GivenUp
<1> HIDE DEF t
<1>2. Base(t) /\ t.on \in Platforms BY <1>0, BaseHolds, OnAPlatform
<1>3. c \in Slots /\ c \in TokensOf(c) /\ t.copy[t.on] \in Records /\ Owns(t.copy[t.on])
  BY <1>2 DEF Base, Typed, TokensOf
<1>4. t.copy[t.on].token[c] \in TokensOf(c) /\ t.copy[t.on].token[c] \in Slots \cup {None}
  BY <1>3 DEF Owns, TokensOf, Records
<1>5. "dingtalk" \notin Serves(t.kind) => t.on = "feishu" /\ \A d \in Slots : t.token["dingtalk"][d] = None
  <2>1. "dingtalk" \notin Serves(t.kind) => \A d \in Slots : t.token["dingtalk"][d] = None
    BY <1>0 DEF SendInv, Placed, Gathers
  <2>2. t.kind \notin {"mail1", "mail2", "feishu2"} BY <1>0 DEF SendInv, Placed
  <2>3. t.kind \in {"mail1", "mail2", "feishu1", "feishu2", "dingtalk1", "dingtalk2", "third1", "third2"}
    BY <1>2, ThirdPartyAssumption DEF Base
  <2> QED BY <1>2, <2>1, <2>2, <2>3 DEF Serves, Base, Kinded
<1>6. /\ AfterToken(t) \in {"agent", "other", "resolve"}
      /\ AfterToken(t) = "other" => t.kind = "third1" /\ t.on = "feishu"
      /\ AfterToken(t) = "agent" => t.on = "dingtalk"
      /\ AfterToken(t) = "resolve" => t.kind # "third1"
  <2>1. CASE t.on = "dingtalk"
    <3>1. AfterToken(t) = "agent" BY <2>1 DEF AfterToken
    <3> QED BY <2>1, <3>1
  <2>2. CASE t.on = "feishu" /\ t.kind = "third1"
    <3>1. AfterToken(t) = "other" BY <2>2 DEF AfterToken
    <3> QED BY <2>2, <3>1
  <2>3. CASE t.on = "feishu" /\ t.kind # "third1"
    <3>1. AfterToken(t) = "resolve" BY <2>3 DEF AfterToken
    <3> QED BY <2>3, <3>1
  <2> QED BY <1>2, <2>1, <2>2, <2>3 DEF Platforms
<1> HIDE DEF c
\* The record keeps what it owns, whether or not the token goes into it.
<1>7. /\ Same(t, k, {"copy"}) /\ k.copy \in [Platforms -> Records]
      /\ \A p \in Platforms : Owns(k.copy[p]) /\ k.copy[p].ticket = t.copy[p].ticket
  <2>1. CASE Keeps(t, c) BY <1>2, <1>3, <2>1, KeepTokenFields
  <2>2. CASE ~Keeps(t, c) BY <1>2, <2>2 DEF Base, Typed, Same
  <2> QED BY <2>1, <2>2
<1> HIDE DEF k
<1>8. Base(k)
  <2>1. /\ k.queue = t.queue /\ k.kind = t.kind /\ k.got = t.got /\ k.company = t.company
        /\ k.failed = t.failed /\ k.pc = t.pc /\ k.on = t.on /\ k.stale = t.stale /\ k.left = t.left
        /\ k.ready = t.ready /\ k.token = t.token /\ k.tried = t.tried /\ DOMAIN k = DOMAIN t
    BY <1>7 DEF Same, Fields
  <2> QED BY <1>2, <1>7, <2>1 DEF Base, Typed, Kinded, Told
<1>9. /\ Same(k, v, {"token"}) /\ v.token \in [Platforms -> [Slots -> Slots \cup {None}]]
      /\ \A p \in Platforms, d \in Slots : v.token[p][d] = IF p = t.on /\ d = c THEN c ELSE k.token[p][d]
      /\ \A p \in Platforms, d \in Slots : v.token[p][d] \in TokensOf(d)
  BY <1>2, <1>3, <1>8, UseTokenFields
<1>10. /\ Same(t, w, {"token"}) /\ w.token \in [Platforms -> [Slots -> Slots \cup {None}]]
       /\ \A p \in Platforms, d \in Slots :
            w.token[p][d] = IF p = t.on /\ d = c THEN t.copy[t.on].token[c] ELSE t.token[p][d]
       /\ \A p \in Platforms, d \in Slots : w.token[p][d] \in TokensOf(d)
  BY <1>2, <1>3, <1>4, UseTokenFields
<1> HIDE DEF v, w
<1>11. Good(t, ask)
  <2>1. /\ Same(v, ask, {"pc", "after"}) /\ ask.pc = "save" /\ ask.after = AfterToken(t)
    BY <1>2, <1>7, <1>9 DEF Base, Typed, Same, Fields
  <2> HIDE DEF ask
  <2>2. ask.copy = k.copy /\ ask.token = v.token /\ k.token = t.token /\ Same(t, ask, {"pc", "after", "copy", "token"})
    BY <1>7, <1>9, <2>1 DEF Same, Fields
  <2>3. Tokened(ask) BY <1>7, <1>9, <2>2 DEF Tokened
  <2>4. "dingtalk" \notin Serves(t.kind) => \A d \in Slots : ask.token["dingtalk"][d] = None
    BY <1>5, <1>9, <2>2 DEF Platforms
  <2> QED BY <1>0, <1>6, <1>7, <2>1, <2>2, <2>3, <2>4, EarlyIsGood DEF Upon
<1>12. Good(t, use)
  <2>1. /\ Same(w, use, {"pc"}) /\ use.pc = AfterToken(t)
    BY <1>2, <1>10 DEF Base, Typed, Same, Fields
  <2> HIDE DEF use
  <2>2. use.copy = t.copy /\ use.token = w.token /\ Same(t, use, {"pc", "after", "copy", "token"})
    BY <1>10, <2>1 DEF Same, Fields
  <2>3. Tokened(use) BY <1>2, <1>10, <2>2 DEF Tokened, Base, Typed
  <2>4. "dingtalk" \notin Serves(t.kind) => \A d \in Slots : use.token["dingtalk"][d] = None
    BY <1>5, <1>10, <2>2 DEF Platforms
  <2> QED BY <1>0, <1>6, <2>1, <2>2, <2>3, <2>4, EarlyIsGood DEF Upon
<1>13. Good(t, GivenUp(t)) BY <1>2, FailedIsGood
<1> QED BY <1>1, <1>11, <1>12, <1>13 DEF t

\* and its agents.
LEMMA AgentIsGood ==
  ASSUME NEW s \in Sends, SendInv(task[s]), Agent(s)
  PROVE  \E u : Set(s, u) /\ Good(task[s], u)
<1> DEFINE t == task[s]
           w == WithAgent(t, t.company["dingtalk"])
           known == [t EXCEPT !.pc = "resolve"]
           ask == [w EXCEPT !.pc = "save", !.after = "resolve"]
<1>0. SendInv(t) /\ t.pc = "agent" BY DEF Agent, Step
<1>1. Set(s, known) \/ Set(s, GivenUp(t)) \/ Set(s, ask) BY DEF Agent, End, GivenUp
<1> HIDE DEF t
<1>2. Base(t) /\ Gathers(t) /\ t.on = "dingtalk" BY <1>0, BaseHolds DEF Gathers, Upon, SendInv, Placed
<1>3. t.company["dingtalk"] \in Slots BY <1>2 DEF Base, Typed, Platforms
<1>4. "dingtalk" \notin Serves(t.kind) => \A d \in Slots : t.token["dingtalk"][d] = None
  BY <1>0, <1>2 DEF SendInv, Placed
<1>5. /\ Same(t, w, {"copy"}) /\ w.copy \in [Platforms -> Records]
      /\ \A p \in Platforms : Owns(w.copy[p]) /\ w.copy[p].ticket = t.copy[p].ticket
  BY <1>2, <1>3, WithAgentFields
<1> HIDE DEF w
<1>6. Good(t, known)
  <2>1. Same(t, known, {"pc"}) /\ known.pc = "resolve" BY <1>2 DEF Base, Typed, Same, Fields
  <2> HIDE DEF known
  <2>2. known.copy = t.copy /\ known.token = t.token /\ Same(t, known, {"pc", "after", "copy", "token"})
    BY <2>1 DEF Same, Fields
  <2>3. Tokened(known) BY <1>2, <2>2 DEF Tokened, Base, Typed
  <2> QED BY <1>0, <1>2, <1>4, <2>1, <2>2, <2>3, EarlyIsGood DEF Upon
<1>7. Good(t, ask)
  <2>1. Same(w, ask, {"pc", "after"}) /\ ask.pc = "save" /\ ask.after = "resolve"
    BY <1>2, <1>5 DEF Base, Typed, Same, Fields
  <2> HIDE DEF ask
  <2>2. ask.copy = w.copy /\ ask.token = t.token /\ Same(t, ask, {"pc", "after", "copy", "token"})
    BY <1>5, <2>1 DEF Same, Fields
  <2>3. Tokened(ask) BY <1>2, <1>5, <2>2 DEF Tokened, Base, Typed
  <2> QED BY <1>0, <1>2, <1>4, <1>5, <2>1, <2>2, <2>3, EarlyIsGood DEF Upon
<1>8. Good(t, GivenUp(t)) BY <1>2, FailedIsGood
<1> QED BY <1>1, <1>6, <1>7, <1>8 DEF t

---------------------------------------------------------------------------
\* A record has been written by somebody: what the others have read is stale.
LEMMA OvertakenKeeps ==
  ASSUME NEW t, SendInv(t), NEW p \in Platforms
  PROVE  LET u == Overtaken(t, p)
         IN  /\ SendInv(u) /\ u.pc = t.pc /\ u.on = t.on /\ u.stale[p]
             /\ \A q \in Platforms : q # p => u.stale[q] = t.stale[q]
             /\ \A q \in Platforms : HasRead(u, q) = HasRead(t, q) /\ u.copy[q] = t.copy[q]
<1> DEFINE u == Overtaken(t, p)
           ss == t.stale
<1>1. Same(t, u, {"stale"}) /\ u.stale = [ss EXCEPT ![p] = TRUE]
  BY DEF Overtaken, SendInv, Typed, Same, Fields
<1>2. ss \in [Platforms -> BOOLEAN] BY DEF SendInv, Typed
<1> HIDE DEF u, ss
<1>3. /\ u.stale \in [Platforms -> BOOLEAN] /\ u.stale[p]
      /\ \A q \in Platforms : q # p => u.stale[q] = ss[q]
  BY <1>1, <1>2
<1>a. /\ u.queue = t.queue /\ u.req = t.req /\ u.kind = t.kind /\ u.cur = t.cur /\ u.pc = t.pc /\ u.ok = t.ok
      /\ u.token = t.token /\ u.after = t.after /\ u.got = t.got /\ u.tried = t.tried /\ u.on = t.on
      /\ u.ready = t.ready /\ u.again = t.again /\ u.failed = t.failed /\ u.left = t.left
      /\ u.copy = t.copy /\ u.company = t.company /\ DOMAIN u = DOMAIN t
  BY <1>1 DEF Same, Fields
<1>4. (Gathers(u) <=> Gathers(t)) /\ (Posts(u) <=> Posts(t)) /\ (Retries(u) <=> Retries(t))
  BY <1>a DEF Gathers, Posts, Retries, Upon
<1>5. Typed(u) BY <1>3, <1>a DEF SendInv, Typed
<1>6. Kinded(u) BY <1>a DEF SendInv, Kinded
<1>7. Placed(u) BY <1>4, <1>a DEF SendInv, Placed, Upon
<1>8. Counted(u) BY <1>4, <1>a DEF SendInv, Counted, Apart, OneOnly, Unsent, NothingSent
<1>9. Owned(u) BY <1>4, <1>a DEF SendInv, Owned, Told, Addressed
<1>10. Remembered(u)
  BY <1>4, <1>a DEF SendInv, Remembered, Remembers, HasTried, NoAccount, Put
<1>11. \A q \in Platforms : HasRead(u, q) = HasRead(t, q) BY <1>a DEF HasRead
<1> QED BY <1>3, <1>5, <1>6, <1>7, <1>8, <1>9, <1>10, <1>11, <1>a DEF SendInv, u, ss

\* A sender's own step, when the records stay.
LEMMA SetKeeps ==
  ASSUME SendersOK, AllCurrent, RecordsOK, NEW s \in Sends, NEW u, Set(s, u), SendInv(u), UNCHANGED record,
         \/ Reads(task[s], u)
         \/ \A p \in Platforms : HasRead(u, p) /\ ~u.stale[p] =>
              \/ u.copy[p].ticket = record[p].ticket
              \/ HasRead(task[s], p) /\ ~task[s].stale[p] /\ u.copy[p].ticket = task[s].copy[p].ticket
  PROVE  SendersOK' /\ AllCurrent' /\ RecordsOK'
<1>1. task' = [task EXCEPT ![s] = u] BY DEF Set
<1>2. DOMAIN task' = Sends /\ task'[s] = u /\ \A q \in Sends : q # s => task'[q] = task[q]
  BY <1>1 DEF SendersOK
<1>3. SendersOK' BY <1>2 DEF SendersOK
<1>4. ASSUME NEW p \in Platforms, record[p] # NoRecord, HasRead(u, p), ~u.stale[p]
      PROVE  u.copy[p].ticket = record[p].ticket
  <2>1. CASE u.copy[p].ticket = record[p].ticket BY <2>1
  <2>2. CASE HasRead(task[s], p) /\ ~task[s].stale[p] /\ u.copy[p].ticket = task[s].copy[p].ticket
    BY <1>4, <2>2 DEF AllCurrent, Current
  <2> QED BY <1>4, <2>1, <2>2 DEF Reads
<1>5. ASSUME NEW p \in Platforms, record[p] # NoRecord, NEW q \in Sends
      PROVE  HasRead(task'[q], p) /\ ~task'[q].stale[p] => task'[q].copy[p].ticket = record[p].ticket
  <2>1. CASE q = s BY <1>2, <1>4, <1>5, <2>1
  <2>2. CASE q # s BY <1>2, <1>5, <2>2 DEF AllCurrent, Current
  <2> QED BY <2>1, <2>2
<1>6. AllCurrent' BY <1>5 DEF AllCurrent, Current, HasRead
<1>7. RecordsOK' BY DEF RecordsOK
<1> QED BY <1>3, <1>6, <1>7

\* A record is written, by a sender (who goes on as u) or by a consumer.
LEMMA StoredKeeps ==
  ASSUME SendersOK, AllCurrent, RecordsOK, NEW p \in Platforms, NEW r \in Records, Owns(r),
         record' = [record EXCEPT ![p] = r],
         NEW U \in SUBSET Sends, DOMAIN task' = Sends,
         \A s \in Sends \ U : task'[s] = Overtaken(task[s], p),
         \A s \in U : /\ Good(task[s], task'[s])
                      /\ HasRead(task[s], p) /\ ~task[s].stale[p] => task[s].copy[p].ticket = r.ticket
  PROVE  SendersOK' /\ AllCurrent' /\ RecordsOK'
<1>1. /\ DOMAIN record' = Platforms /\ record'[p] = r
      /\ \A q \in Platforms : q # p => record'[q] = record[q]
  BY DEF RecordsOK
<1>2. RecordsOK' BY <1>1 DEF RecordsOK
<1>3. SendersOK' BY OvertakenKeeps DEF SendersOK, Good
<1>4. ASSUME NEW q \in Platforms, record'[q] # NoRecord, NEW s \in Sends,
             HasRead(task'[s], q), ~task'[s].stale[q]
      PROVE  task'[s].copy[q].ticket = record'[q].ticket
  <2>1. CASE s \in U
    <3>1. HasRead(task[s], q) /\ ~task[s].stale[q] /\ task'[s].copy[q].ticket = task[s].copy[q].ticket
      BY <1>4, <2>1 DEF Good, Reads
    <3>2. CASE q = p BY <1>1, <2>1, <3>1, <3>2
    <3>3. CASE q # p
      <4>1. record[q] # NoRecord BY <1>1, <1>4, <3>3
      <4>2. task[s].copy[q].ticket = record[q].ticket BY <3>1, <4>1 DEF AllCurrent, Current
      <4> QED BY <1>1, <3>1, <3>3, <4>2
    <3> QED BY <3>2, <3>3
  <2>2. CASE s \notin U
    <3>1. SendInv(task[s]) BY DEF SendersOK
    <3>2. task'[s] = Overtaken(task[s], p) BY <2>2
    <3>3. q # p BY <1>4, <3>1, <3>2, OvertakenKeeps
    <3>4. HasRead(task[s], q) /\ ~task[s].stale[q] /\ task'[s].copy[q] = task[s].copy[q]
      BY <1>4, <3>1, <3>2, <3>3, OvertakenKeeps
    <3>5. record[q] # NoRecord BY <1>1, <1>4, <3>3
    <3>6. task[s].copy[q].ticket = record[q].ticket BY <3>4, <3>5 DEF AllCurrent, Current
    <3> QED BY <1>1, <3>3, <3>4, <3>6
  <2> QED BY <2>1, <2>2
<1>5. AllCurrent' BY <1>4 DEF AllCurrent, Current, HasRead
<1> QED BY <1>2, <1>3, <1>5

---------------------------------------------------------------------------
\* The consumers of the platforms' events.
Rest == pool' \subseteq Platforms \X (1 .. Events) /\ mishaps' \in 0 .. MaxMishaps

\* Calls that fail are counted.
LEMMA MishapsBounded ==
  ASSUME ThirdPartyInv, Fine \/ Mishap PROVE mishaps' \in 0 .. MaxMishaps
  BY ThirdPartyAssumption DEF ThirdPartyInv, Fine, Mishap

\* Sends and records that nobody touches stay right.
LEMMA Untouched ==
  ASSUME ThirdPartyInv, UNCHANGED <<record, task>> PROVE SendersOK' /\ RecordsOK' /\ AllCurrent'
  BY DEF ThirdPartyInv, SendersOK, RecordsOK, AllCurrent, Current, HasRead

\* The steps of a consumer: an event comes,
LEMMA ReceiveKeeps == ASSUME ThirdPartyInv, NEW c \in Consumers, Receive(c) PROVE ThirdPartyInv'
<1>1. PICK e \in pool :
        /\ pool' = pool \ {e}
        /\ \/ /\ record[e[1]] # NoRecord /\ Fine
              /\ \E f \in FirstFields(e[1]) : consumer' = [consumer EXCEPT ![c] =
                   [pc |-> f, on |-> e[1], ticket |-> e[2], copy |-> record[e[1]]]]
           \/ Fine /\ UNCHANGED consumer
           \/ Mishap /\ UNCHANGED consumer
  BY DEF Receive
<1>2. e[1] \in Platforms /\ e[2] \in 1 .. Events BY DEF ThirdPartyInv
<1>3. Rest BY <1>1, MishapsBounded DEF Rest, ThirdPartyInv
<1>4. UNCHANGED <<record, task>> BY DEF Receive
<1>5. ConsumersOK'
  <2>1. CASE UNCHANGED consumer BY <2>1 DEF ThirdPartyInv, ConsumersOK
  <2>2. ASSUME record[e[1]] # NoRecord, NEW f \in FirstFields(e[1]),
               consumer' = [consumer EXCEPT ![c] = [pc |-> f, on |-> e[1], ticket |-> e[2], copy |-> record[e[1]]]]
        PROVE  ConsumersOK'
    <3> DEFINE d == [pc |-> f, on |-> e[1], ticket |-> e[2], copy |-> record[e[1]]]
    <3>1. DOMAIN consumer' = Consumers /\ consumer'[c] = d /\ \A b \in Consumers : b # c => consumer'[b] = consumer[b]
      BY <2>2 DEF ThirdPartyInv, ConsumersOK
    <3>2. f \in {"ticket", "open"} BY DEF FirstFields
    <3>3. record[e[1]] \in Records /\ Owns(record[e[1]]) BY <1>2, <2>2 DEF ThirdPartyInv, RecordsOK
    <3>4. Consumed(d)
      <4>1. e[2] \in 0 .. Events BY <1>2, ThirdPartyAssumption
      <4> QED BY <1>2, <3>2, <3>3, <4>1 DEF Consumed
    <3> HIDE DEF d
    <3> QED BY <3>1, <3>4 DEF ThirdPartyInv, ConsumersOK
  <2> QED BY <1>1, <2>1, <2>2
<1> QED BY <1>3, <1>4, <1>5, Untouched DEF ThirdPartyInv, Rest

\* there is no record,
LEMMA MissRecordKeeps == ASSUME ThirdPartyInv, NEW c \in Consumers, MissRecord(c) PROVE ThirdPartyInv'
<1>1. PICK p \in Platforms : consumer' = [consumer EXCEPT ![c].pc = "make", ![c].on = p]
  BY DEF MissRecord
<1>2. UNCHANGED <<record, task, pool, mishaps>> BY DEF MissRecord
<1> DEFINE e == consumer[c]
           d == [e EXCEPT !.pc = "make", !.on = p]
<1>3. DOMAIN consumer' = Consumers /\ consumer'[c] = d /\ \A b \in Consumers : b # c => consumer'[b] = consumer[b]
  BY <1>1 DEF ThirdPartyInv, ConsumersOK
<1>4. Consumed(e) BY DEF ThirdPartyInv, ConsumersOK
<1> HIDE DEF e
<1>5. Consumed(d) BY <1>4 DEF Consumed
<1> HIDE DEF d
<1>6. ConsumersOK' BY <1>3, <1>5 DEF ThirdPartyInv, ConsumersOK
<1> QED BY <1>2, <1>6, Untouched DEF ThirdPartyInv

\* one is made,
LEMMA MakeRecordKeeps == ASSUME ThirdPartyInv, NEW c \in Consumers, MakeRecord(c) PROVE ThirdPartyInv'
<1> DEFINE e == consumer[c]
           p == e.on
           d == [e EXCEPT !.pc = "idle"]
<1>1. /\ e.pc = "make" /\ UNCHANGED pool
      /\ consumer' = [consumer EXCEPT ![c].pc = "idle"]
      /\ \/ /\ Fine
            /\ record' = [record EXCEPT ![p] = FreshRecord]
            /\ task' = [s \in Sends |-> Overtaken(task[s], p)]
         \/ Mishap /\ UNCHANGED <<record, task>>
  BY DEF MakeRecord
<1>2. DOMAIN consumer' = Consumers /\ consumer'[c] = d /\ \A b \in Consumers : b # c => consumer'[b] = consumer[b]
  BY <1>1 DEF ThirdPartyInv, ConsumersOK
<1>3. Consumed(e) BY DEF ThirdPartyInv, ConsumersOK
<1> HIDE DEF e
<1>4. Consumed(d) /\ p \in Platforms BY <1>1, <1>3 DEF Consumed
<1> HIDE DEF d, p
<1>5. ConsumersOK' BY <1>2, <1>4 DEF ThirdPartyInv, ConsumersOK
<1>6. SendersOK' /\ RecordsOK' /\ AllCurrent'
  <2>1. CASE UNCHANGED <<record, task>> BY <2>1, Untouched
  <2>2. CASE record' = [record EXCEPT ![p] = FreshRecord] /\ task' = [s \in Sends |-> Overtaken(task[s], p)]
    <3>1. FreshRecord \in Records /\ Owns(FreshRecord)
      BY ThirdPartyAssumption DEF FreshRecord, Records, Owns
    <3>2. DOMAIN task' = Sends /\ \A s \in Sends \ {} : task'[s] = Overtaken(task[s], p) BY <2>2
    <3>3. {} \in SUBSET Sends OBVIOUS
    <3>4. \A s \in {} : /\ Good(task[s], task'[s])
                        /\ HasRead(task[s], p) /\ ~task[s].stale[p] => task[s].copy[p].ticket = FreshRecord.ticket
      OBVIOUS
    <3> QED BY <1>4, <2>2, <3>1, <3>2, <3>3, <3>4, StoredKeeps DEF ThirdPartyInv
  <2> QED BY <1>1, <2>1, <2>2
<1>7. mishaps' \in 0 .. MaxMishaps BY <1>1, MishapsBounded
<1> QED BY <1>1, <1>5, <1>6, <1>7 DEF ThirdPartyInv

\* (one field of a record)
LEMMA WithOwns ==
  ASSUME NEW r \in Records, Owns(r), NEW f \in {"ticket", "open", "token", "agent"}, NEW n \in 0 .. Events
  PROVE  With(r, f, n) \in Records /\ Owns(With(r, f, n))
<1>1. CASE f = "ticket"
  <2>1. With(r, f, n) = [r EXCEPT !.ticket = n] BY <1>1 DEF With
  <2> QED BY <2>1 DEF Records, Owns
<1>2. CASE f = "open"
  <2>1. With(r, f, n) = r BY <1>2 DEF With
  <2> QED BY <2>1
<1>3. CASE f = "token"
  <2>1. With(r, f, n) = [r EXCEPT !.token[NoTenant] = NoTenant] BY <1>3 DEF With
  <2> QED BY <2>1 DEF Records, Owns, Slots
<1>4. CASE f = "agent"
  <2>1. With(r, f, n) = [r EXCEPT !.agent[NoTenant] = NoTenant] BY <1>4 DEF With
  <2> QED BY <2>1 DEF Records, Owns, Slots
<1> QED BY <1>1, <1>2, <1>3, <1>4

\* and the event is written into it.
LEMMA ConsumeKeeps == ASSUME ThirdPartyInv, NEW c \in Consumers, Consume(c) PROVE ThirdPartyInv'
<1> DEFINE e == consumer[c]
           p == e.on
           new == With(e.copy, e.pc, e.ticket)
<1>1. /\ e.pc \in {"ticket", "open", "token", "agent"}
      /\ \/ /\ Fine /\ UNCHANGED pool
            /\ \E next \in AfterField(p, e.pc) :
                 consumer' = [consumer EXCEPT ![c].pc = next, ![c].copy = new]
            /\ \/ UNCHANGED <<record, task>>
               \/ /\ record' = [record EXCEPT ![p] = new]
                  /\ task' = [s \in Sends |-> Overtaken(task[s], p)]
         \/ /\ Mishap /\ UNCHANGED <<record, task>>
            /\ consumer' = [consumer EXCEPT ![c].pc = "idle"]
            /\ \/ pool' = pool \cup {<<p, e.ticket>>}
               \/ UNCHANGED pool
  BY Zenon DEF Consume
<1>2. Consumed(e) BY DEF ThirdPartyInv, ConsumersOK
<1> HIDE DEF e
<1>3. e.ticket \in 1 .. Events /\ e.ticket \in 0 .. Events /\ p \in Platforms /\ e.copy \in Records /\ Owns(e.copy)
  BY <1>1, <1>2 DEF Consumed
<1>4. new \in Records /\ Owns(new) BY <1>1, <1>3, WithOwns
<1> HIDE DEF p, new
<1>5. AfterField(p, e.pc) \subseteq {"token", "idle", "agent"} BY DEF AfterField
<1>6. ConsumersOK'
  <2>1. ASSUME NEW d, Consumed(d), consumer' = [consumer EXCEPT ![c] = d] PROVE ConsumersOK'
    <3>1. DOMAIN consumer' = Consumers /\ consumer'[c] = d /\ \A b \in Consumers : b # c => consumer'[b] = consumer[b]
      BY <2>1 DEF ThirdPartyInv, ConsumersOK
    <3> QED BY <2>1, <3>1 DEF ThirdPartyInv, ConsumersOK
  <2>2. CASE \E next \in AfterField(p, e.pc) : consumer' = [consumer EXCEPT ![c].pc = next, ![c].copy = new]
    <3>1. PICK next \in AfterField(p, e.pc) : consumer' = [consumer EXCEPT ![c].pc = next, ![c].copy = new]
      BY <2>2
    <3> DEFINE d == [e EXCEPT !.pc = next, !.copy = new]
    <3>2. consumer' = [consumer EXCEPT ![c] = d] BY <3>1 DEF e
    <3>3. Consumed(d) BY <1>2, <1>3, <1>4, <1>5 DEF Consumed, p
    <3> HIDE DEF d
    <3> QED BY <2>1, <3>2, <3>3
  <2>3. CASE consumer' = [consumer EXCEPT ![c].pc = "idle"]
    <3> DEFINE d == [e EXCEPT !.pc = "idle"]
    <3>2. consumer' = [consumer EXCEPT ![c] = d] BY <2>3 DEF e
    <3>3. Consumed(d) BY <1>2 DEF Consumed
    <3> HIDE DEF d
    <3> QED BY <2>1, <3>2, <3>3
  <2> QED BY <1>1, <2>2, <2>3
<1>7. SendersOK' /\ RecordsOK' /\ AllCurrent'
  <2>1. CASE UNCHANGED <<record, task>> BY <2>1, Untouched
  <2>2. CASE record' = [record EXCEPT ![p] = new] /\ task' = [s \in Sends |-> Overtaken(task[s], p)]
    <3>2. DOMAIN task' = Sends /\ \A s \in Sends \ {} : task'[s] = Overtaken(task[s], p) BY <2>2
    <3>3. {} \in SUBSET Sends OBVIOUS
    <3>4. \A s \in {} : /\ Good(task[s], task'[s])
                        /\ HasRead(task[s], p) /\ ~task[s].stale[p] => task[s].copy[p].ticket = new.ticket
      OBVIOUS
    <3> QED BY <1>3, <1>4, <2>2, <3>2, <3>3, <3>4, StoredKeeps DEF ThirdPartyInv
  <2> QED BY <1>1, <2>1, <2>2
<1>8. mishaps' \in 0 .. MaxMishaps BY <1>1, MishapsBounded
<1>9. pool' \subseteq Platforms \X (1 .. Events) BY <1>1, <1>3 DEF ThirdPartyInv
<1> QED BY <1>6, <1>7, <1>8, <1>9 DEF ThirdPartyInv

---------------------------------------------------------------------------
\* Every step of a sender keeps the invariant.
LEMMA SendFrame ==
  ASSUME NEW s \in Sends, SendStep(s)
  PROVE  UNCHANGED <<consumer, pool>> /\ (Fine \/ Mishap)
<1>1. CASE StartSend(s) BY <1>1 DEF StartSend, Fine
<1>2. CASE Load(s) BY <1>2 DEF Load
<1>3. CASE Token(s) BY <1>3 DEF Token
<1>4. CASE Other(s) BY <1>4 DEF Other, Fine
<1>5. CASE Agent(s) BY <1>5 DEF Agent
<1>6. CASE Save(s) BY <1>6 DEF Save
<1>7. CASE Resolve(s) BY <1>7 DEF Resolve
<1>8. CASE PlainAccount(s) BY <1>8 DEF PlainAccount, Fine
<1>9. CASE FeishuAccount(s) BY <1>9 DEF FeishuAccount
<1>10. CASE DingTalkAccount(s) BY <1>10 DEF DingTalkAccount
<1>11. CASE OlderDingTalkAccount(s) BY <1>11 DEF OlderDingTalkAccount
<1>12. CASE Resolved(s) BY <1>12 DEF Resolved, Fine
<1>13. CASE Post(s) BY <1>13 DEF Post, Lost
<1>14. CASE NewAgent(s) BY <1>14 DEF NewAgent
<1>15. CASE NewToken(s) BY <1>15 DEF NewToken
<1>16. CASE Repost(s) BY <1>16 DEF Repost, Lost
<1>17. CASE Sent(s) BY <1>17 DEF Sent
<1> QED BY <1>1, <1>2, <1>3, <1>4, <1>5, <1>6, <1>7, <1>8, <1>9, <1>10, <1>11, <1>12, <1>13, <1>14,
           <1>15, <1>16, <1>17 DEF SendStep

\* All steps but Save, which writes a record, and the first two, which read one.
LEMMA PlainStepIsGood ==
  ASSUME NEW s \in Sends, SendInv(task[s]), SendStep(s), ~StartSend(s), ~Load(s), ~Save(s)
  PROVE  UNCHANGED record /\ \E u : Set(s, u) /\ Good(task[s], u)
<1>3. CASE Token(s) BY <1>3, TokenIsGood DEF Token
<1>4. CASE Other(s) BY <1>4, OtherIsGood DEF Other
<1>5. CASE Agent(s) BY <1>5, AgentIsGood DEF Agent
<1>7. CASE Resolve(s) BY <1>7, ResolveIsGood DEF Resolve
<1>8. CASE PlainAccount(s) BY <1>8, PlainAccountIsGood DEF PlainAccount
<1>9. CASE FeishuAccount(s) BY <1>9, FeishuAccountIsGood DEF FeishuAccount
<1>10. CASE DingTalkAccount(s) BY <1>10, DingTalkAccountIsGood DEF DingTalkAccount
<1>11. CASE OlderDingTalkAccount(s) BY <1>11, OlderDingTalkAccountIsGood DEF OlderDingTalkAccount
<1>12. CASE Resolved(s) BY <1>12, ResolvedIsGood DEF Resolved
<1>13. CASE Post(s) BY <1>13, PostIsGood DEF Post
<1>14. CASE NewAgent(s) BY <1>14, NewAgentIsGood DEF NewAgent
<1>15. CASE NewToken(s) BY <1>15, NewTokenIsGood DEF NewToken
<1>16. CASE Repost(s) BY <1>16, RepostIsGood DEF Repost
<1>17. CASE Sent(s) BY <1>17, SentIsGood DEF Sent
<1> QED BY <1>3, <1>4, <1>5, <1>7, <1>8, <1>9, <1>10, <1>11, <1>12, <1>13, <1>14,
           <1>15, <1>16, <1>17 DEF SendStep

\* All steps of a send.
LEMMA SendStepKeeps == ASSUME ThirdPartyInv, NEW s \in Sends, SendStep(s) PROVE ThirdPartyInv'
<1>0. /\ SendersOK /\ RecordsOK /\ AllCurrent /\ ConsumersOK
      /\ UNCHANGED <<consumer, pool>> /\ mishaps' \in 0 .. MaxMishaps
      /\ SendInv(task[s])
  BY SendFrame, MishapsBounded DEF ThirdPartyInv, SendersOK
<1>1. SendersOK' /\ AllCurrent' /\ RecordsOK'
  <2>1. CASE StartSend(s)
    <3>1. PICK u : Set(s, u) /\ SendInv(u) /\ (\A p \in Platforms : ~HasRead(u, p)) /\ UNCHANGED record
      BY <2>1, StartSendIsGood
    <3> QED BY <1>0, <3>1, SetKeeps
  <2>2. CASE Load(s)
    <3>1. PICK u : /\ Set(s, u) /\ SendInv(u)
                   /\ \/ Reads(task[s], u)
                      \/ \A p \in Platforms : HasRead(u, p) /\ ~u.stale[p] =>
                           \/ u.copy[p].ticket = record[p].ticket
                           \/ /\ HasRead(task[s], p) /\ ~task[s].stale[p]
                              /\ u.copy[p].ticket = task[s].copy[p].ticket
      BY <1>0, <2>2, LoadIsGood DEF RecordsOK
    <3>2. UNCHANGED record BY <2>2 DEF Load
    <3> QED BY <1>0, <3>1, <3>2, SetKeeps
  <2>3. CASE Save(s)
    <3> DEFINE p == task[s].on
               r == task[s].copy[p]
    <3>1. p \in Platforms BY <1>0, <2>3, SaveIsGood
    <3>2. PICK u : Good(task[s], u) /\ (Stored(s, p, r, u) \/ (Set(s, u) /\ UNCHANGED record))
      BY <1>0, <2>3, SaveIsGood
    <3>3. CASE Set(s, u) /\ UNCHANGED record BY <1>0, <3>2, <3>3, SetKeeps DEF Good
    <3>4. CASE Stored(s, p, r, u)
      <4>1. r \in Records /\ Owns(r) BY <1>0, <3>1 DEF SendInv, Typed, Owned
      <4>2. /\ record' = [record EXCEPT ![p] = r] /\ DOMAIN task' = Sends /\ task'[s] = u
            /\ \A q \in Sends \ {s} : task'[q] = Overtaken(task[q], p)
        BY <3>4 DEF Stored
      <4>3. {s} \in SUBSET Sends OBVIOUS
      <4>4. \A q \in {s} : /\ Good(task[q], task'[q])
                           /\ HasRead(task[q], p) /\ ~task[q].stale[p] => task[q].copy[p].ticket = r.ticket
        BY <3>2, <4>2
      <4> HIDE DEF p, r
      <4> QED BY <1>0, <3>1, <4>1, <4>2, <4>3, <4>4, StoredKeeps
    <3> QED BY <3>2, <3>3, <3>4
  <2>4. CASE ~StartSend(s) /\ ~Load(s) /\ ~Save(s)
    <3>1. PICK u : UNCHANGED record /\ Set(s, u) /\ Good(task[s], u) BY <1>0, <2>4, PlainStepIsGood
    <3> QED BY <1>0, <3>1, SetKeeps DEF Good
  <2> QED BY <2>1, <2>2, <2>3, <2>4
<1>2. ConsumersOK' BY <1>0 DEF ConsumersOK
<1>3. pool' \subseteq Platforms \X (1 .. Events) BY <1>0 DEF ThirdPartyInv
<1> QED BY <1>0, <1>1, <1>2, <1>3 DEF ThirdPartyInv

---------------------------------------------------------------------------
\* The invariant holds at the start,
LEMMA InvInit == ASSUME ThirdPartyInit PROVE ThirdPartyInv
<1>1. Typed(NoTask)
  <2>1. FreshRecord \in Records BY ThirdPartyAssumption DEF FreshRecord, Records
  <2> QED BY <2>1 DEF NoTask, Typed, Fields, Slots
<1>2. Owns(FreshRecord) BY DEF FreshRecord, Owns
<1>3. ~Gathers(NoTask) /\ ~Posts(NoTask) /\ ~Retries(NoTask) /\ NoTask.pc = "idle"
  BY DEF NoTask, Gathers, Posts, Retries, Upon
<1>4. SendInv(NoTask)
  <2>1. Kinded(NoTask)
    BY <1>3 DEF Kinded
  <2>2. Placed(NoTask) BY <1>3 DEF Placed, Upon
  <2>3. Counted(NoTask) BY <1>3 DEF Counted
  <2>4. Owned(NoTask) BY <1>2, <1>3 DEF Owned, Told, NoTask, TokensOf
  <2>5. Remembered(NoTask) BY <1>3 DEF Remembered
  <2> QED BY <1>1, <2>1, <2>2, <2>3, <2>4, <2>5 DEF SendInv
<1>5. SendersOK BY <1>4 DEF ThirdPartyInit, SendersOK
<1>6. RecordsOK
  <2>1. FreshRecord \in Records BY ThirdPartyAssumption DEF FreshRecord, Records
  <2> QED BY <1>2, <2>1 DEF ThirdPartyInit, RecordsOK
<1>7. AllCurrent BY <1>3 DEF ThirdPartyInit, AllCurrent, Current, HasRead
<1>8. ConsumersOK
  <2> DEFINE e == [pc |-> "idle", on |-> None, ticket |-> 0, copy |-> FreshRecord]
  <2>1. FreshRecord \in Records BY ThirdPartyAssumption DEF FreshRecord, Records
  <2>2. Consumed(e) BY <1>2, <2>1, ThirdPartyAssumption DEF Consumed
  <2>3. DOMAIN consumer = Consumers /\ \A c \in Consumers : consumer[c] = e BY DEF ThirdPartyInit
  <2> HIDE DEF e
  <2> QED BY <2>2, <2>3 DEF ConsumersOK
<1> QED BY <1>5, <1>6, <1>7, <1>8, ThirdPartyAssumption DEF ThirdPartyInit, ThirdPartyInv

\* and every step keeps it.
LEMMA InvStep == ASSUME ThirdPartyInv, [ThirdPartyNext]_thirdPartyVars PROVE ThirdPartyInv'
<1>1. CASE UNCHANGED thirdPartyVars
  BY <1>1, Untouched DEF thirdPartyVars, ThirdPartyInv, ConsumersOK
<1>2. ASSUME NEW s \in Sends, SendStep(s) PROVE ThirdPartyInv' BY <1>2, SendStepKeeps
<1>3. ASSUME NEW c \in Consumers, Receive(c) PROVE ThirdPartyInv' BY <1>3, ReceiveKeeps
<1>4. ASSUME NEW c \in Consumers, Consume(c) PROVE ThirdPartyInv' BY <1>4, ConsumeKeeps
<1>5. ASSUME NEW c \in Consumers, MissRecord(c) PROVE ThirdPartyInv' BY <1>5, MissRecordKeeps
<1>6. ASSUME NEW c \in Consumers, MakeRecord(c) PROVE ThirdPartyInv' BY <1>6, MakeRecordKeeps
<1> QED BY <1>1, <1>2, <1>3, <1>4, <1>5, <1>6 DEF ThirdPartyNext

\* The senders and the consumers keep the invariant, whatever the users, the
\* tenants, the accounts, the events and the number of failures.
THEOREM InvariantHolds == ThirdPartySpec => []ThirdPartyInv
<1>1. ThirdPartyInit => ThirdPartyInv BY InvInit
<1>2. ThirdPartyInv /\ [ThirdPartyNext]_thirdPartyVars => ThirdPartyInv' BY InvStep
<1> QED BY <1>1, <1>2, PTL DEF ThirdPartySpec

\* Records and reports are of their types (ThirdPartyTypeOK).
THEOREM ThirdPartyTypesHold == ThirdPartySpec => []ThirdPartyTypeOK
<1>1. ThirdPartyInv => ThirdPartyTypeOK
  BY DEF ThirdPartyInv, RecordsOK, SendersOK, SendInv, Typed, Records, ThirdPartyTypeOK
<1> QED BY <1>1, InvariantHolds, PTL

\* However tokens and agents are renewed between a refusal and the second
\* request, nobody gets one request's message twice on one platform
\* (sendRequestToDingTalk and the Feishu senders).
THEOREM NoSecondCopyHolds == ThirdPartySpec => []NoSecondCopy
<1>1. ThirdPartyInv => NoSecondCopy
  BY DEF ThirdPartyInv, SendersOK, SendInv, Typed, NoSecondCopy
<1> QED BY <1>1, InvariantHolds, PTL

\* A sending of version 2 that ends well has a request for every target, or
\* reports it, or the target has no account (sendMessageV2).
THEOREM NobodyForgottenHolds == ThirdPartySpec => []NobodyForgotten
<1>1. ThirdPartyInv => NobodyForgotten
  BY DEF ThirdPartyInv, SendersOK, SendInv, Remembered, NobodyForgotten, Kind, HasTried, NoAccount
<1> QED BY <1>1, InvariantHolds, PTL

\* A request carries no tenant's token but its own, and the shared record has
\* tokens and agents under their own companies, whoever wrote it last.
THEOREM TokenOfItsTenantHolds == ThirdPartySpec => []TokenOfItsTenant
<1>1. ThirdPartyInv => TokenOfItsTenant
  <2> SUFFICES ASSUME ThirdPartyInv PROVE TokenOfItsTenant
    OBVIOUS
  <2>1. ASSUME NEW s \in Sends, NEW a \in task[s].tried, a.on \in Platforms
        PROVE  /\ a.token \in {None, a.of} \cup (IF a.of = NoTenant THEN {OwnTenant} ELSE {})
               /\ IF Older(Kind(s)) THEN a.of = task[s].company[a.on] ELSE a.of = TenantOf[a.to]
    BY <2>1 DEF ThirdPartyInv, SendersOK, SendInv, Owned, Told, TokensOf, Kind
  <2>2. \A p \in Platforms : record[p] # NoRecord =>
          \A c \in Slots : record[p].token[c] \in {None, c} /\ record[p].agent[c] \in {None, c}
    BY DEF ThirdPartyInv, RecordsOK, Owns
  <2> QED BY <2>1, <2>2 DEF TokenOfItsTenant
<1> QED BY <1>1, InvariantHolds, PTL

\* Another's step leaves a sender where it is.
LEMMA OnlyItselfLeavesSave ==
  ASSUME ThirdPartyInv, ThirdPartyNext, NEW s \in Sends, task[s].pc = "save", task'[s].pc # "save"
  PROVE  Save(s)
<1>0. DOMAIN task = Sends /\ SendInv(task[s]) BY DEF ThirdPartyInv, SendersOK
<1>1. \A p : Overtaken(task[s], p).pc = task[s].pc
  BY <1>0 DEF Overtaken, SendInv, Typed, Fields
<1>2. ASSUME NEW q \in Sends, SendStep(q), q # s PROVE FALSE
  <2>1. SendInv(task[q]) BY DEF ThirdPartyInv, SendersOK
  <2>2. ASSUME NEW u, Set(q, u) PROVE FALSE BY <1>0, <1>2, <2>2 DEF Set
  <2>3. ASSUME NEW u, NEW p, NEW r, Stored(q, p, r, u) PROVE FALSE
    BY <1>1, <1>2, <2>3 DEF Stored
  <2>4. CASE StartSend(q) BY <2>2, <2>4, StartSendIsGood
  <2>5. CASE Load(q)
    <3>1. \E u : Set(q, u) BY <2>1, <2>5, LoadIsGood DEF ThirdPartyInv, RecordsOK
    <3> QED BY <2>2, <3>1
  <2>6. CASE Save(q) BY <2>1, <2>2, <2>3, <2>6, SaveIsGood
  <2>7. CASE ~StartSend(q) /\ ~Load(q) /\ ~Save(q) BY <1>2, <2>1, <2>2, <2>7, PlainStepIsGood
  <2> QED BY <2>4, <2>5, <2>6, <2>7
<1>3. ASSUME NEW c \in Consumers, Receive(c) \/ Consume(c) \/ MissRecord(c) \/ MakeRecord(c) PROVE FALSE
  <2>1. UNCHANGED task \/ \E p : task' = [q \in Sends |-> Overtaken(task[q], p)]
    BY <1>3 DEF Receive, Consume, MissRecord, MakeRecord
  <2> QED BY <1>1, <2>1
<1>4. SendStep(s) BY <1>2, <1>3 DEF ThirdPartyNext
<1> QED BY <1>4 DEF SendStep, StartSend, Load, Token, Other, Agent, Resolve, PlainAccount, FeishuAccount,
     DingTalkAccount, OlderDingTalkAccount, Resolved, Post, NewAgent, NewToken, Repost, Sent, On, Step

\* A sender takes the shared record back to an older ticket only when the
\* record was written between its reading and its writing.
THEOREM TicketBackOnlyIfStaleHolds == ThirdPartySpec => TicketBackOnlyIfStale
<1> DEFINE Back == \A s \in Sends : task[s].pc = "save" /\ task'[s].pc # "save" /\ ~task[s].stale[task[s].on]
                     => \A p \in Platforms : record'[p] # NoRecord /\ record[p] # NoRecord
                          => record'[p].ticket = record[p].ticket
<1>1. ThirdPartyInv /\ [ThirdPartyNext]_thirdPartyVars => [Back]_thirdPartyVars
  <2> SUFFICES ASSUME ThirdPartyInv, ThirdPartyNext, NEW s \in Sends, task[s].pc = "save", task'[s].pc # "save",
                      ~task[s].stale[task[s].on],
                      NEW p \in Platforms, record'[p] # NoRecord, record[p] # NoRecord
               PROVE  record'[p].ticket = record[p].ticket
    OBVIOUS
  <2>0. SendInv(task[s]) BY DEF ThirdPartyInv, SendersOK
  <2>1. Save(s) BY OnlyItselfLeavesSave
  <2>2. task[s].on \in Platforms BY <2>0, <2>1, SaveIsGood
  <2>3. UNCHANGED record \/ record' = [record EXCEPT ![task[s].on] = task[s].copy[task[s].on]]
    BY <2>0, <2>1, SaveIsGood DEF Stored
  <2>4. HasRead(task[s], task[s].on)
    <3>1. Kinded(task[s]) /\ task[s].kind \in Kinds /\ task[s].kind \notin {"mail1", "mail2", "feishu2"}
      BY <2>0 DEF SendInv, Kinded, Placed
    <3>2. task[s].kind \in {"mail1", "mail2", "feishu1", "feishu2", "dingtalk1", "dingtalk2", "third1", "third2"}
      BY <3>1, ThirdPartyAssumption
    <3> QED BY <2>2, <3>1, <3>2 DEF HasRead, Kinded, Platforms
  <2>5. p = task[s].on => task[s].copy[p].ticket = record[p].ticket
    BY <2>4 DEF ThirdPartyInv, AllCurrent, Current
  <2> QED BY <2>2, <2>3, <2>5 DEF ThirdPartyInv, RecordsOK
<1> QED BY <1>1, InvariantHolds, PTL DEF ThirdPartySpec, TicketBackOnlyIfStale
=============================================================================
