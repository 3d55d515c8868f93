--------------------------- MODULE MessageDelivery ---------------------------
(***************************************************************************)
(* How a message reaches its receivers: the handler of the send request    *)
(* (SendMessage and SendMessageV2 of messages.go), the links over which    *)
(* the origin pod passes it to the other pods (server.go) and the list of  *)
(* cached messages each user has in Redis.                                 *)
(*                                                                         *)
(* The websocket registry of a pod is the set of its users (module         *)
(* ClientConnections has its detail), so that a critical section of        *)
(* ServerInstance.mu that calls nothing outside the pod is one step; one   *)
(* that calls Redis is a step per call, and the pod is busy meanwhile.  A  *)
(* message names each of its receivers once.                               *)
(***************************************************************************)
EXTENDS Naturals, Sequences, FiniteSets

CONSTANTS
  Pods, Users, Messages,
  Origin,      \* the pod that serves the request to send each message
  Receivers,   \* the Target of each request
  Mode,        \* the mode of each message's class, "push" or "pull"
  NoMessage, NoUser,
  Faults       \* what may fail: "link", "lookup", "redis", "store"

ASSUME DeliveryAssumption ==
  /\ Origin \in [Messages -> Pods]
  /\ Receivers \in [Messages -> SUBSET Users]
  /\ Mode \in [Messages -> {"push", "pull"}]
  /\ NoMessage \notin Messages /\ NoUser \notin Users
  /\ Pods \cap Messages = {}
  /\ IsFiniteSet(Users) /\ IsFiniteSet(Pods)

\* Who rewrites cached lists: a pod in handleBroadcastNotification (one at a
\* time, under its ServerInstance.mu) or the handler of a pull message.
Jobs == Pods \cup Messages

VARIABLES
  online,        \* the users in each pod's ServerInstance.clients
  links,         \* pairs of pods with a ToMessengerConnection from first to second
  channel,       \* ToMessengerConnection.send
  wire,          \* the websocket frames sent and not yet read
  stage,         \* where the handler of each message is
  target,        \* message.Target in that handler, then in the store
  inbox,         \* per pod and user, the messages queued on the user's sockets
  doing,         \* the message a job works on
  todo,          \* the receivers it has left
  writing,       \* the user whose list it has read and will write
  snapshot,      \* what it read
  userMessages,  \* the cached list of each user in Redis
  fetching,      \* the users with a fetch between its GET and its DEL
  taken,         \* what that fetch has read
  fetched,       \* the messages each user's fetches returned
  sent,          \* history: the order in which each pod redirected messages
  dropped,       \* history: messages a pod threw away or had nobody to pass to
  stale          \* history: users with a list written or deleted from an old read

mesh    == <<links, channel, wire>>
request == <<stage, target>>
job     == <<doing, todo, writing, snapshot>>
cache   == <<userMessages, fetching, taken, fetched>>
history == <<sent, dropped, stale>>
vars == <<online, mesh, request, inbox, job, cache, history>>

Peers(p) == {q \in Pods \ {p} : <<p, q>> \in links}

Init ==
  /\ online \in [Pods -> SUBSET Users]
  /\ links = {pq \in Pods \X Pods : pq[1] # pq[2]}
  /\ channel = [pq \in Pods \X Pods |-> <<>>]
  /\ wire = [pq \in Pods \X Pods |-> <<>>]
  /\ stage = [m \in Messages |-> "new"]
  /\ target = Receivers
  /\ inbox = [p \in Pods |-> [u \in Users |-> <<>>]]
  /\ doing = [j \in Jobs |-> NoMessage]
  /\ todo = [j \in Jobs |-> {}]
  /\ writing = [j \in Jobs |-> NoUser]
  /\ snapshot = [j \in Jobs |-> <<>>]
  /\ userMessages = [u \in Users |-> <<>>]
  /\ fetching = {}
  /\ taken = [u \in Users |-> <<>>]
  /\ fetched = [u \in Users |-> {}]
  /\ sent = [p \in Pods |-> <<>>]
  /\ dropped = {}
  /\ stale = {}

-----------------------------------------------------------------------------
(***************************************************************************)
(* Users come and go (under ServerInstance.mu, see ClientConnections).     *)
(***************************************************************************)
MuFree(p) == doing[p] = NoMessage

Connect(p, u) ==
  /\ MuFree(p)
  /\ online' = [online EXCEPT ![p] = @ \cup {u}]
  /\ UNCHANGED <<mesh, request, inbox, job, cache, history>>

Disconnect(p, u) ==
  /\ MuFree(p)
  /\ online' = [online EXCEPT ![p] = @ \ {u}]
  /\ UNCHANGED <<mesh, request, inbox, job, cache, history>>

-----------------------------------------------------------------------------
(***************************************************************************)
(* The request to send a message.                                          *)
(***************************************************************************)

\* Variants, as careless edits would leave these helpers; the properties are
\* tested against them.
RemoveAll(receivers, success) == IF success = {} THEN receivers ELSE {}
SendFirst(queue, packet) == <<packet>> \o queue
NeverTake(receivers, u) == receivers
KeepLocked(q) == doing' = doing

\* channel <- packet.  A channel has room for 256 messages, more than the model
\* sends; what a full one does is a matter of ClientConnections.
SendTo(queue, packet) == Append(queue, packet)

\* The receivers left once u is served.
Take(receivers, u) == receivers \ {u}

Unlock(q) == doing' = [doing EXCEPT ![q] = NoMessage]

\* The receivers left in message.Target once those in success were served.
Remaining(receivers, success) ==
  IF Cardinality(success) > 1 THEN receivers \ success ELSE receivers

\* redirectMessageToSockets on the origin pod, with the helper that queues the
\* message on the sockets of the receivers the pod knows.
Redirect(m) ==
  LET p == Origin[m]
      success == Receivers[m] \cap online[p]
      rest == Remaining(Receivers[m], success)
  IN  /\ stage[m] = "new" /\ Mode[m] = "push"
      /\ MuFree(p)
      /\ stage' = [stage EXCEPT ![m] = "sent"]
      /\ target' = [target EXCEPT ![m] = rest]
      /\ inbox' = [inbox EXCEPT ![p] = [u \in Users |->
                     IF u \in success THEN Append(@[u], m) ELSE @[u]]]
      /\ channel' = [pq \in Pods \X Pods |->
                       IF pq[1] = p /\ pq[2] \in Peers(p)
                       THEN SendTo(channel[pq], [msg |-> m, target |-> rest])
                       ELSE channel[pq]]
      /\ sent' = [sent EXCEPT ![p] = Append(@, m)]
      /\ dropped' = IF Peers(p) = {} THEN dropped \cup {m} ELSE dropped
      /\ UNCHANGED <<online, links, wire, job, cache, stale>>

\* A pull message: its handler adds it to the list of one receiver after another.
Pull(m) ==
  /\ stage[m] = "new" /\ Mode[m] = "pull"
  /\ stage' = [stage EXCEPT ![m] = "caching"]
  /\ doing' = [doing EXCEPT ![m] = m]
  /\ todo' = [todo EXCEPT ![m] = Receivers[m]]
  /\ UNCHANGED <<online, mesh, target, inbox, writing, snapshot, cache, history>>

PullDone(m) ==
  /\ stage[m] = "caching"
  /\ todo[m] = {} /\ writing[m] = NoUser
  /\ stage' = [stage EXCEPT ![m] = "sent"]
  /\ doing' = [doing EXCEPT ![m] = NoMessage]
  /\ UNCHANGED <<online, mesh, target, inbox, todo, writing, snapshot, cache, history>>

\* insertOneMessage, the last step of a send.
Store(m) ==
  /\ stage[m] = "sent"
  /\ \/ stage' = [stage EXCEPT ![m] = "stored"]
     \/ "store" \in Faults /\ stage' = [stage EXCEPT ![m] = "failed"]
  /\ UNCHANGED <<online, mesh, target, inbox, job, cache, history>>

-----------------------------------------------------------------------------
(***************************************************************************)
(* The links between pods.                                                 *)
(***************************************************************************)

\* How many messages may leave together.
FrameSizes(queue) == 1 .. Len(queue)

\* ToMessengerConnection.writePump: the message it received and all those
\* queued behind it leave in one websocket frame.  Messages may join the queue
\* while it writes: any prefix is a frame.
WritePump(pq) ==
  /\ pq \in links
  /\ \E n \in FrameSizes(channel[pq]) :
       /\ wire' = [wire EXCEPT ![pq] =
                     Append(@, SubSeq(channel[pq], 1, n))]
       /\ channel' = [channel EXCEPT ![pq] = SubSeq(@, n + 1, Len(@))]
  /\ UNCHANGED <<online, links, request, inbox, job, cache, history>>

\* json.Unmarshal of a frame fails unless it is one JSON object.
Decodes(frame) == Len(frame) = 1

\* FromMessengerConnection.readPump hands the next frame to
\* handleBroadcastNotification, which locks ServerInstance.mu.
HandleBroadcast(p, q) ==
  LET frame == Head(wire[<<p, q>>])
  IN  /\ wire[<<p, q>>] # <<>>
      /\ MuFree(q)
      /\ Decodes(frame)
      /\ wire' = [wire EXCEPT ![<<p, q>>] = Tail(@)]
      /\ doing' = [doing EXCEPT ![q] = frame[1].msg]
      /\ todo' = [todo EXCEPT ![q] = frame[1].target]
      /\ UNCHANGED <<online, links, channel, request, inbox, writing, snapshot,
                     cache, history>>

MessagesOf(frames) ==
  UNION {{frames[i][j].msg : j \in DOMAIN frames[i]} : i \in DOMAIN frames}

\* handleBroadcastNotification cannot decode the frame, or cannot find the
\* message's configuration: it logs and returns.
DropFrame(p, q) ==
  LET frame == Head(wire[<<p, q>>])
  IN  /\ wire[<<p, q>>] # <<>>
      /\ MuFree(q)
      /\ ~Decodes(frame) \/ "lookup" \in Faults
      /\ wire' = [wire EXCEPT ![<<p, q>>] = Tail(@)]
      /\ dropped' = dropped \cup MessagesOf(<<frame>>)
      /\ UNCHANGED <<online, links, channel, request, inbox, job, cache, sent, stale>>

\* The link fails: what is queued or on the wire is lost.
LinkFails(pq) ==
  /\ "link" \in Faults
  /\ pq \in links
  /\ links' = links \ {pq}
  /\ channel' = [channel EXCEPT ![pq] = <<>>]
  /\ wire' = [wire EXCEPT ![pq] = <<>>]
  /\ dropped' = dropped \cup MessagesOf(<<channel[pq]>> \o wire[pq])
  /\ UNCHANGED <<online, request, inbox, job, cache, sent, stale>>

\* The reconnect loop of the origin pod dials the other one again.
LinkRestored(pq) ==
  /\ pq \notin links /\ pq[1] # pq[2]
  /\ links' = links \cup {pq}
  /\ UNCHANGED <<online, channel, wire, request, inbox, job, cache, history>>

-----------------------------------------------------------------------------
(***************************************************************************)
(* The receivers of a job.                                                 *)
(***************************************************************************)

\* sendMessageToUserSocket on a pod that knows the user.
DeliverRemote(q, u) ==
  /\ q \in Pods
  /\ u \in todo[q] /\ writing[q] = NoUser
  /\ u \in online[q]
  /\ todo' = [todo EXCEPT ![q] = Take(@, u)]
  /\ inbox' = [inbox EXCEPT ![q][u] = Append(@, doing[q])]
  /\ UNCHANGED <<online, mesh, request, doing, writing, snapshot, cache, history>>

\* A pod caches for the users it does not know, a pull handler for all.
Caches(j, u) == j \in Pods => u \notin online[j]

\* addMessageToUserCachedMessagesRedis, the GET.  A failed GET is taken for a
\* user without a list.
CacheGet(j, u) ==
  /\ u \in todo[j] /\ writing[j] = NoUser
  /\ Caches(j, u)
  /\ todo' = [todo EXCEPT ![j] = Take(@, u)]
  /\ writing' = [writing EXCEPT ![j] = u]
  /\ \/ snapshot' = [snapshot EXCEPT ![j] = userMessages[u]]
     \/ "redis" \in Faults /\ snapshot' = [snapshot EXCEPT ![j] = <<>>]
  /\ UNCHANGED <<online, mesh, request, inbox, doing, cache, history>>

StaleIf(old, u) == IF userMessages[u] # old THEN stale \cup {u} ELSE stale

\* addMessageToUserCachedMessagesRedis, the SET.
CacheSet(j) ==
  LET u == writing[j]
  IN  /\ u # NoUser
      /\ userMessages' = [userMessages EXCEPT ![u] = Append(snapshot[j], doing[j])]
      /\ writing' = [writing EXCEPT ![j] = NoUser]
      /\ snapshot' = [snapshot EXCEPT ![j] = <<>>]
      /\ stale' = StaleIf(snapshot[j], u)
      /\ UNCHANGED <<online, mesh, request, inbox, doing, todo, fetching, taken,
                     fetched, sent, dropped>>

\* The SET fails: a pod logs it and goes on, a pull handler returns the error.
CacheSetFails(j) ==
  /\ "redis" \in Faults
  /\ writing[j] # NoUser
  /\ writing' = [writing EXCEPT ![j] = NoUser]
  /\ snapshot' = [snapshot EXCEPT ![j] = <<>>]
  /\ dropped' = dropped \cup {doing[j]}
  /\ IF j \in Pods
     THEN UNCHANGED <<stage, doing, todo>>
     ELSE /\ stage' = [stage EXCEPT ![j] = "failed"]
          /\ doing' = [doing EXCEPT ![j] = NoMessage]
          /\ todo' = [todo EXCEPT ![j] = {}]
  /\ UNCHANGED <<online, mesh, target, inbox, cache, sent, stale>>

\* handleBroadcastNotification returns and unlocks ServerInstance.mu.
BroadcastDone(q) ==
  /\ doing[q] # NoMessage
  /\ todo[q] = {} /\ writing[q] = NoUser
  /\ Unlock(q)
  /\ UNCHANGED <<online, mesh, request, inbox, todo, writing, snapshot, cache, history>>

-----------------------------------------------------------------------------
(***************************************************************************)
(* A user fetches the cached messages.                                     *)
(***************************************************************************)

\* getMessagesFromRedis, the GET of a user who has a list.
FetchGet(u) ==
  /\ u \notin fetching
  /\ userMessages[u] # <<>>
  /\ fetching' = fetching \cup {u}
  /\ taken' = [taken EXCEPT ![u] = userMessages[u]]
  /\ UNCHANGED <<online, mesh, request, inbox, job, userMessages, fetched, history>>

Elements(s) == {s[i] : i \in DOMAIN s}

\* getMessagesFromRedis, the DEL.  When it fails the fetch returns an error and
\* the list stays.
FetchDel(u) ==
  /\ u \in fetching
  /\ fetching' = fetching \ {u}
  /\ taken' = [taken EXCEPT ![u] = <<>>]
  /\ \/ /\ userMessages' = [userMessages EXCEPT ![u] = <<>>]
        /\ fetched' = [fetched EXCEPT ![u] = @ \cup Elements(taken[u])]
        /\ stale' = StaleIf(taken[u], u)
     \/ "redis" \in Faults /\ UNCHANGED <<userMessages, fetched, stale>>
  /\ UNCHANGED <<online, mesh, request, inbox, job, sent, dropped>>

-----------------------------------------------------------------------------
SendStep(m) == Redirect(m) \/ Pull(m) \/ PullDone(m) \/ Store(m)

JobStep(j) ==
  \/ \E u \in Users : DeliverRemote(j, u) \/ CacheGet(j, u)
  \/ CacheSet(j) \/ CacheSetFails(j)

Receive(p, q) == HandleBroadcast(p, q) \/ DropFrame(p, q)

Next ==
  \/ \E p \in Pods, u \in Users : Connect(p, u) \/ Disconnect(p, u)
  \/ \E m \in Messages : SendStep(m)
  \/ \E pq \in Pods \X Pods : WritePump(pq) \/ LinkFails(pq) \/ LinkRestored(pq)
  \/ \E p, q \in Pods : Receive(p, q)
  \/ \E j \in Jobs : JobStep(j)
  \/ \E q \in Pods : BroadcastDone(q)
  \/ \E u \in Users : FetchGet(u) \/ FetchDel(u)

Spec == Init /\ [][Next]_vars

\* The goroutines of the links and the handlers that have begun go on, and a
\* request waiting for ServerInstance.mu gets it in the end: sync.Mutex hands
\* itself to a goroutine that waited for a millisecond, so a Redirect or a frame
\* that finds the pod free again and again is not passed over for ever.
Fairness ==
  /\ \A m \in Messages : SF_vars(Redirect(m)) /\ WF_vars(Pull(m) \/ PullDone(m))
  /\ \A pq \in Pods \X Pods : WF_vars(WritePump(pq))
  /\ \A p, q \in Pods : SF_vars(Receive(p, q))
  /\ \A j \in Jobs : WF_vars(JobStep(j))
  /\ \A q \in Pods : WF_vars(BroadcastDone(q))

FairSpec == Spec /\ Fairness

-----------------------------------------------------------------------------
Packets == [msg : Messages, target : SUBSET Users]

\* Every variable stays in its type; in particular a pod that is free has no
\* receiver left over and no list half rewritten.
TypeOK ==
  /\ online \in [Pods -> SUBSET Users]
  /\ links \subseteq Pods \X Pods
  /\ channel \in [Pods \X Pods -> Seq(Packets)]
  /\ wire \in [Pods \X Pods -> Seq(Seq(Packets) \ {<<>>})]
  /\ stage \in [Messages -> {"new", "caching", "sent", "stored", "failed"}]
  /\ target \in [Messages -> SUBSET Users]
  /\ inbox \in [Pods -> [Users -> Seq(Messages)]]
  /\ doing \in [Jobs -> Messages \cup {NoMessage}]
  /\ todo \in [Jobs -> SUBSET Users]
  /\ writing \in [Jobs -> Users \cup {NoUser}]
  /\ snapshot \in [Jobs -> Seq(Messages)]
  /\ userMessages \in [Users -> Seq(Messages)]
  /\ fetching \subseteq Users
  /\ taken \in [Users -> Seq(Messages)]
  /\ fetched \in [Users -> SUBSET Messages]
  /\ sent \in [Pods -> Seq(Messages)]
  /\ dropped \subseteq Messages
  /\ stale \subseteq Users
  /\ \A j \in Jobs : doing[j] = NoMessage => todo[j] = {} /\ writing[j] = NoUser

(***************************************************************************)
(* Where a message to a user can be.                                       *)
(***************************************************************************)
OnASocket(m, u) == \E p \in Pods : m \in Elements(inbox[p][u])
IsFor(packet, m, u) == packet.msg = m /\ u \in packet.target
InTransit(m, u) ==
  \E pq \in Pods \X Pods :
    \/ \E i \in DOMAIN channel[pq] : IsFor(channel[pq][i], m, u)
    \/ \E i \in DOMAIN wire[pq] : \E j \in DOMAIN wire[pq][i] : IsFor(wire[pq][i][j], m, u)
InHand(m, u) == \E j \in Jobs : doing[j] = m /\ (u \in todo[j] \/ u = writing[j])
InTheList(m, u) == m \in Elements(userMessages[u])

\* A message that was accepted is, for each of its receivers, on one of the
\* receiver's sockets, on its way, in the receiver's list or already fetched.
\* There are two excuses and no other: a pod threw the message away (a frame it
\* could not decode, a failed lookup, link or SET, or no other pod to pass it
\* to), or the receiver's list was rewritten from an old copy.
Accounted ==
  \A m \in Messages : \A u \in Receivers[m] :
    stage[m] \notin {"new", "failed"} =>
      \/ OnASocket(m, u) \/ InTransit(m, u) \/ InHand(m, u)
      \/ InTheList(m, u) \/ m \in fetched[u]
      \/ m \in dropped \/ u \in stale

Before(s, a, b) == \E i, j \in DOMAIN s : i < j /\ s[i] = a /\ s[j] = b

\* The messages of one pod reach the sockets of another pod in the order in
\* which the first one redirected them.
OrderKept ==
  \A q \in Pods, u \in Users : \A i, j \in DOMAIN inbox[q][u] :
    LET a == inbox[q][u][i]
        b == inbox[q][u][j]
    IN  i < j /\ Origin[a] = Origin[b] /\ Origin[a] # q => Before(sent[Origin[a]], a, b)

\* A list never holds more copies of a message than there are pods other than
\* its origin, whatever is rewritten from old copies.
CopiesBounded ==
  \A u \in Users, m \in Messages :
    Cardinality({i \in DOMAIN userMessages[u] : userMessages[u][i] = m})
      <= IF Mode[m] = "pull" THEN 1 ELSE Cardinality(Pods) - 1

\* A message that was accepted leaves the links, and no pod keeps
\* ServerInstance.mu for it: whoever waited for the mutex can go on.
Settles ==
  \A m \in Messages :
    stage[m] # "new" ~> /\ \A u \in Users : ~InTransit(m, u)
                        /\ \A j \in Jobs : doing[j] # m

(***************************************************************************)
(* What the comments of the code say and the code does not do.             *)
(***************************************************************************)

\* "Attach queued chat messages to the current websocket message"
\* (server.go:431): messages that share a frame arrive as well.
AttachedMessagesArrive == dropped = {}

=============================================================================
