------------------------- MODULE ClientConnections -------------------------
(***************************************************************************)
(* One pod's registry of user websocket connections: the goroutines that   *)
(* create, serve, fill and remove the connections of                       *)
(* src/src/restful/services/messages.go, with the three levels of mutexes  *)
(* they share (ServerInstance.mu, ClientConnection.mu, Connection.mu) and  *)
(* the bounded channel between the senders and each write pump.            *)
(*                                                                         *)
(* A connection is named by its remote address, a ClientConnection by the  *)
(* connection request whose validateWebSocketConnection created it, so     *)
(* that an entry deleted and created again is a different object with a    *)
(* mutex of its own.  A step ends where the code may block (a Lock, a send *)
(* on a channel) or touches shared state; a critical section that cannot   *)
(* block is one step.                                                      *)
(***************************************************************************)
EXTENDS Naturals

CONSTANTS
  Users,      \* open ids
  Conns,      \* websocket connections, each named by its remote address
  Owner,      \* the open id each connection request carries
  NoClient,   \* the nil *ClientConnection
  Senders,    \* goroutines that run redirectMessageToSockets once
  Pushers,    \* goroutines that run sendMessageToUserSocket without server.mu
  Handlers,   \* handleNewMessage goroutines, one received frame each
  Actions,    \* the kinds of frames clients send
  Cap         \* capacity of Connection.send (256 in the code)

(***************************************************************************)
(* The eight outcomes of handleNewMessage differ, for this module, in what *)
(* they lock: a "plain" one sends its reply under no lock (bad JSON, an    *)
(* unknown action, changeFilteringMode); a "locked" one replies under      *)
(* connection.mu (addConfiguration, the four list operations, the early    *)
(* returns of deleteConfiguration); the rest of deleteConfiguration takes  *)
(* server.mu inside connection.mu.                                         *)
(***************************************************************************)
FrameKinds == {"plain", "locked", "deleteConfiguration"}

ASSUME ConnsAssumption ==
  /\ Owner \in [Conns -> Users]
  /\ NoClient \notin Conns
  /\ Senders \cap Pushers = {}
  /\ Actions \subseteq FrameKinds
  /\ Cap \in Nat \ {0}

Deliverers == Senders \cup Pushers

VARIABLES
  serverMu,     \* holder of ServerInstance.mu
  clientMu,     \* holder of each ClientConnection.mu
  connMu,       \* holder of each Connection.mu
  clients,      \* ServerInstance.clients: open id -> *ClientConnection
  connections,  \* ClientConnection.connections
  send,         \* number of messages in each Connection.send
  socket,       \* state of the network connection
  request,      \* the gin handler of each connection request
  reader,       \* each readPump
  writer,       \* each writePump
  frame,        \* each handleNewMessage: the kind of its frame and its connection
  handler,      \* where each handleNewMessage is
  todo,         \* receivers each deliverer has left to serve
  entry,        \* the client whose connections it ranges over
  left,         \* the connections its range has left
  at,           \* the connection it is sending to
  deliverer,    \* where each deliverer is
  crashed       \* the process died of a panic or a fatal runtime error

locks    == <<serverMu, clientMu, connMu>>
registry == <<clients, connections>>
pumps    == <<send, socket, reader, writer>>
handlers == <<frame, handler>>
job      == <<todo, entry, left, at>>
delivery == <<job, deliverer>>
vars == <<locks, registry, pumps, request, handlers, delivery, crashed>>

-----------------------------------------------------------------------------
(***************************************************************************)
(* Mutexes.                                                                *)
(***************************************************************************)
Free == <<>>
Request(c)   == <<"request", c>>
Reader(c)    == <<"reader", c>>
Handler(h)   == <<"handler", h>>
Deliverer(d) == <<"deliverer", d>>

Goroutines == ({"request", "reader"} \X Conns)
                \cup ({"handler"} \X Handlers)
                \cup ({"deliverer"} \X Deliverers)

\* Variants of the helpers below, as a careless edit would leave them; the
\* properties are tested against them.
LeaveConnLocked(c)    == connMu' = connMu
KeepServerLocked(d)   == serverMu
AlwaysNewEntry(c)     == c
AlwaysLast(c)         == TRUE
NeverLast(c)          == FALSE
IgnoreClientMu(k)     == TRUE
EnqueueUnbounded(c)   == send' = [send EXCEPT ![c] = @ + 1]

LockServer(g) == serverMu = Free /\ serverMu' = g
LockConnMu(c, g) == connMu[c] = Free /\ connMu' = [connMu EXCEPT ![c] = g]
UnlockConnMu(c) == connMu' = [connMu EXCEPT ![c] = Free]
CanLockClient(k) == k = NoClient \/ clientMu[k] = Free

\* connection.send <- message blocks while the channel is full.
Enqueue(c) ==
  /\ send[c] < Cap
  /\ send' = [send EXCEPT ![c] = @ + 1]

NoFrame == [kind |-> "locked", conn |-> NoClient]

Init ==
  /\ serverMu = Free
  /\ clientMu = [k \in Conns |-> Free]
  /\ connMu = [c \in Conns |-> Free]
  /\ clients = [u \in Users |-> NoClient]
  /\ connections = [k \in Conns |-> {}]
  /\ send = [c \in Conns |-> 0]
  /\ socket = [c \in Conns |-> "none"]
  /\ request = [c \in Conns |-> "new"]
  /\ reader = [c \in Conns |-> "off"]
  /\ writer = [c \in Conns |-> "off"]
  /\ frame = [h \in Handlers |-> NoFrame]
  /\ handler = [h \in Handlers |-> "idle"]
  /\ todo = [d \in Deliverers |-> {}]
  /\ entry = [d \in Deliverers |-> NoClient]
  /\ left = [d \in Deliverers |-> {}]
  /\ at = [d \in Deliverers |-> NoClient]
  /\ deliverer = [d \in Deliverers |-> "idle"]
  /\ crashed = FALSE

-----------------------------------------------------------------------------
(***************************************************************************)
(* The connection request: two critical sections of server.mu.             *)
(***************************************************************************)

\* The entry of the user of request c once Validate(c) is done.
EntryFor(c) == IF clients[Owner[c]] = NoClient THEN c ELSE clients[Owner[c]]

\* validateWebSocketConnection: make sure the user has an entry.
Validate(c) ==
  /\ request[c] = "new"
  /\ serverMu = Free
  /\ request' = [request EXCEPT ![c] = "validated"]
  /\ clients' = [clients EXCEPT ![Owner[c]] = EntryFor(c)]
  /\ UNCHANGED <<locks, connections, pumps, handlers, delivery, crashed>>

\* createWebSocketConnection, when the protocol upgrade fails: an early
\* return that leaves the entry of Validate as it is.
RefuseUpgrade(c) ==
  /\ request[c] = "validated"
  /\ serverMu = Free
  /\ request' = [request EXCEPT ![c] = "refused"]
  /\ UNCHANGED <<locks, registry, pumps, handlers, delivery, crashed>>

\* createWebSocketConnection finds that the entry is gone: a nil dereference,
\* which gin.Recovery answers with a 500 after the deferred Unlock.
PanicInCreate(c) ==
  /\ request[c] = "validated"
  /\ serverMu = Free
  /\ clients[Owner[c]] = NoClient
  /\ request' = [request EXCEPT ![c] = "panicked"]
  /\ UNCHANGED <<locks, registry, pumps, handlers, delivery, crashed>>

\* createWebSocketConnection holds server.mu and asks for client.mu.
Upgrade(c) ==
  /\ request[c] = "validated"
  /\ clients[Owner[c]] # NoClient
  /\ LockServer(Request(c))
  /\ request' = [request EXCEPT ![c] = "creating"]
  /\ UNCHANGED <<clientMu, connMu, registry, pumps, handlers, delivery, crashed>>

\* The rest of createWebSocketConnection, under both mutexes: register the
\* connection, start its pumps and queue the welcome message.
Register(c) ==
  LET k == clients[Owner[c]]
  IN  /\ request[c] = "creating"
      /\ clientMu[k] = Free
      /\ connections' = [connections EXCEPT ![k] = @ \cup {c}]
      /\ request' = [request EXCEPT ![c] = "connected"]
      /\ socket' = [socket EXCEPT ![c] = "open"]
      /\ reader' = [reader EXCEPT ![c] = "reading"]
      /\ writer' = [writer EXCEPT ![c] = "select"]
      /\ send' = [send EXCEPT ![c] = 1]
      /\ serverMu' = Free
      /\ UNCHANGED <<clientMu, connMu, clients, handlers, delivery, crashed>>

-----------------------------------------------------------------------------
(***************************************************************************)
(* The read pump and disconnect.                                           *)
(***************************************************************************)

\* The peer goes away or the network fails (the environment).
Break(c) ==
  /\ socket[c] = "open"
  /\ socket' = [socket EXCEPT ![c] = "broken"]
  /\ UNCHANGED <<locks, registry, send, reader, writer, request, handlers,
                 delivery, crashed>>

\* ReadMessage returns a frame: go connection.handleNewMessage(frame).
ReadFrame(c, h, kind) ==
  /\ reader[c] = "reading"
  /\ socket[c] = "open"
  /\ handler[h] = "idle"
  /\ frame' = [frame EXCEPT ![h] = [kind |-> kind, conn |-> c]]
  /\ handler' = [handler EXCEPT ![h] = "start"]
  /\ UNCHANGED <<locks, registry, pumps, request, delivery, crashed>>

\* ReadMessage fails (or pongWait passes); the deferred disconnect begins.
ReadFails(c) ==
  /\ reader[c] = "reading"
  /\ socket[c] # "open"
  /\ reader' = [reader EXCEPT ![c] = "leaving"]
  /\ UNCHANGED <<locks, registry, send, socket, writer, request, handlers,
                 delivery, crashed>>

\* disconnect: ServerInstance.mu.Lock()
DisconnectLockServer(c) ==
  /\ reader[c] = "leaving"
  /\ LockServer(Reader(c))
  /\ reader' = [reader EXCEPT ![c] = "haveServer"]
  /\ UNCHANGED <<clientMu, connMu, registry, send, socket, writer, request,
                 handlers, delivery, crashed>>

\* disconnect: connection.mu.Lock()
DisconnectLockConn(c) ==
  /\ reader[c] = "haveServer"
  /\ LockConnMu(c, Reader(c))
  /\ reader' = [reader EXCEPT ![c] = "haveConn"]
  /\ UNCHANGED <<serverMu, clientMu, registry, send, socket, writer, request,
                 handlers, delivery, crashed>>

\* delete(client.connections, connection.addr)
Without(k, c) == connections[k] \ {c}

\* len(client.connections) == 0 after that
LastConnection(c) ==
  LET k == clients[Owner[c]] IN k # NoClient /\ Without(k, c) = {}

\* disconnect: client.mu.Lock() when the user has an entry; delete the
\* connection, delete the entry if that was its last one, close the socket.
\* The loop over connection.channels changes nothing here: the list it reads
\* from Redis is a JSON object, which never decodes into its []string.
DisconnectRemove(c) ==
  LET u == Owner[c]
      k == clients[u]
  IN  /\ reader[c] = "haveConn"
      /\ CanLockClient(k)
      /\ connections' = IF k = NoClient THEN connections
                        ELSE [connections EXCEPT ![k] = Without(k, c)]
      /\ clients' = IF LastConnection(c) THEN [clients EXCEPT ![u] = NoClient]
                    ELSE clients
      /\ socket' = [socket EXCEPT ![c] = "closed"]
      /\ reader' = [reader EXCEPT ![c] = "gone"]
      /\ serverMu' = Free
      /\ UnlockConnMu(c)
      /\ UNCHANGED <<clientMu, send, writer, request, handlers, delivery, crashed>>

-----------------------------------------------------------------------------
(***************************************************************************)
(* The write pump.                                                         *)
(***************************************************************************)

\* case message := <-connection.send
TakeMessage(c) ==
  /\ writer[c] = "select"
  /\ send[c] > 0
  /\ send' = [send EXCEPT ![c] = @ - 1]
  /\ writer' = [writer EXCEPT ![c] = "taken"]
  /\ UNCHANGED <<locks, registry, socket, reader, request, handlers, delivery,
                 crashed>>

\* Under connection.mu: write the message and those queued behind it.  On a
\* write error the inner function returns early; the pump goes on.
Flush(c) ==
  /\ writer[c] = "taken"
  /\ connMu[c] = Free
  /\ \E rest \in 0 .. send[c] :
       /\ socket[c] = "open" => rest = 0
       /\ send' = [send EXCEPT ![c] = rest]
  /\ writer' = [writer EXCEPT ![c] = "select"]
  /\ UNCHANGED <<locks, registry, socket, reader, request, handlers, delivery,
                 crashed>>

\* case <-ticker.C: the ping fails, the pump returns, the channel stays.
PingFails(c) ==
  /\ writer[c] = "select"
  /\ socket[c] # "open"
  /\ writer' = [writer EXCEPT ![c] = "exited"]
  /\ UNCHANGED <<locks, registry, send, socket, reader, request, handlers,
                 delivery, crashed>>

-----------------------------------------------------------------------------
(***************************************************************************)
(* handleNewMessage, by the kind of its frame.                             *)
(***************************************************************************)
\* A reply sent under no lock.
ReplyUnlocked(h) ==
  /\ handler[h] = "start"
  /\ frame[h].kind = "plain"
  /\ Enqueue(frame[h].conn)
  /\ handler' = [handler EXCEPT ![h] = "done"]
  /\ UNCHANGED <<locks, registry, socket, reader, writer, request, frame,
                 delivery, crashed>>

\* connection.mu.Lock()
HandlerLockConn(h) ==
  LET c == frame[h].conn
  IN  /\ handler[h] = "start"
      /\ frame[h].kind # "plain"
      /\ LockConnMu(c, Handler(h))
      /\ handler' = [handler EXCEPT ![h] = IF frame[h].kind = "locked"
                                           THEN "reply" ELSE "wantServer"]
      /\ UNCHANGED <<serverMu, clientMu, registry, pumps, request, frame,
                     delivery, crashed>>

\* The one reply of a handler, sent while it holds connection.mu.
ReplyLocked(h) ==
  LET c == frame[h].conn
  IN  /\ handler[h] = "reply"
      /\ Enqueue(c)
      /\ UnlockConnMu(c)
      /\ handler' = [handler EXCEPT ![h] = "done"]
      /\ UNCHANGED <<serverMu, clientMu, registry, socket, reader, writer,
                     request, frame, delivery, crashed>>

\* deleteConfiguration: ServerInstance.mu.Lock() inside connection.mu.
DeleteLockServer(h) ==
  /\ handler[h] = "wantServer"
  /\ LockServer(Handler(h))
  /\ handler' = [handler EXCEPT ![h] = "haveServer"]
  /\ UNCHANGED <<clientMu, connMu, registry, pumps, request, frame, delivery,
                 crashed>>

\* deleteConfiguration reads the connections of its user's entry: a nil entry
\* is a panic in a bare goroutine, which ends the process.
DeleteFindsNoClient(h) ==
  /\ handler[h] = "haveServer"
  /\ clients[Owner[frame[h].conn]] = NoClient
  /\ crashed' = TRUE
  /\ UNCHANGED <<locks, registry, pumps, request, handlers, delivery>>

\* deleteConfiguration, another connection of the user listens to the class:
\* it returns without a reply.
DeleteSilently(h) ==
  LET c == frame[h].conn
      k == clients[Owner[c]]
  IN  /\ handler[h] = "haveServer"
      /\ k # NoClient
      /\ \E other \in connections[k] : other # c
      /\ serverMu' = Free
      /\ UnlockConnMu(c)
      /\ handler' = [handler EXCEPT ![h] = "done"]
      /\ UNCHANGED <<clientMu, registry, pumps, request, frame, delivery, crashed>>

\* deleteConfiguration, no other connection listens: update the list in Redis,
\* then reply, with both mutexes held.
DeleteFromList(h) ==
  /\ handler[h] = "haveServer"
  /\ clients[Owner[frame[h].conn]] # NoClient
  /\ handler' = [handler EXCEPT ![h] = "replyDelete"]
  /\ UNCHANGED <<locks, registry, pumps, request, frame, delivery, crashed>>

DeleteReply(h) ==
  LET c == frame[h].conn
  IN  /\ handler[h] = "replyDelete"
      /\ Enqueue(c)
      /\ serverMu' = Free
      /\ UnlockConnMu(c)
      /\ handler' = [handler EXCEPT ![h] = "done"]
      /\ UNCHANGED <<clientMu, registry, socket, reader, writer, request, frame,
                     delivery, crashed>>

-----------------------------------------------------------------------------
(***************************************************************************)
(* Deliveries.  A sender (redirectMessageToSockets) serves every receiver  *)
(* of its message under server.mu; a pusher (the notification of a status  *)
(* change to the message's author) serves one and does not take server.mu. *)
(***************************************************************************)
Step(d, to) == deliverer' = [deliverer EXCEPT ![d] = to]

\* redirectMessageToSockets: ServerInstance.mu.Lock()
StartRedirect(d, target) ==
  /\ d \in Senders
  /\ deliverer[d] = "idle"
  /\ LockServer(Deliverer(d))
  /\ todo' = [todo EXCEPT ![d] = target]
  /\ Step(d, "loop")
  /\ UNCHANGED <<clientMu, connMu, registry, pumps, request, handlers, entry,
                 left, at, crashed>>

\* sendMessageToUserSocket called by updateMessageStatus or deleteMessage.
StartPush(d, user) ==
  /\ d \in Pushers
  /\ deliverer[d] = "idle"
  /\ todo' = [todo EXCEPT ![d] = {user}]
  /\ Step(d, "loop")
  /\ UNCHANGED <<locks, registry, pumps, request, handlers, entry, left, at,
                 crashed>>

\* sendMessageToUserSocket, no entry: returns false (a pusher's message is
\* cached in Redis first, see MessageDelivery).
ReceiverAbsent(d, u) ==
  /\ deliverer[d] = "loop"
  /\ u \in todo[d]
  /\ clients[u] = NoClient
  /\ todo' = [todo EXCEPT ![d] = @ \ {u}]
  /\ UNCHANGED <<locks, registry, pumps, request, handlers, entry, left, at,
                 deliverer, crashed>>

\* sendMessageToUserSocket, entry found.
ReceiverFound(d, u) ==
  /\ deliverer[d] = "loop"
  /\ u \in todo[d]
  /\ clients[u] # NoClient
  /\ todo' = [todo EXCEPT ![d] = @ \ {u}]
  /\ entry' = [entry EXCEPT ![d] = clients[u]]
  /\ Step(d, "client")
  /\ UNCHANGED <<locks, registry, pumps, request, handlers, left, at, crashed>>

\* A pusher's unlocked read of ServerInstance.clients meets the write of a
\* disconnect or a Validate: the runtime may stop the process (concurrent map
\* read and map write).
MapRace(d) ==
  /\ d \in Pushers
  /\ deliverer[d] = "loop"
  /\ todo[d] # {}
  /\ \E c \in Conns : \/ reader[c] = "haveConn"
                      \/ request[c] = "new" /\ serverMu = Free
  /\ crashed' = TRUE
  /\ UNCHANGED <<locks, registry, pumps, request, handlers, delivery>>

\* client.mu.Lock(), then range over client.connections.
LockClient(d) ==
  LET k == entry[d]
  IN  /\ deliverer[d] = "client"
      /\ clientMu[k] = Free
      /\ clientMu' = [clientMu EXCEPT ![k] = Deliverer(d)]
      /\ left' = [left EXCEPT ![d] = connections[k]]
      /\ Step(d, "each")
      /\ UNCHANGED <<serverMu, connMu, registry, pumps, request, handlers,
                     todo, entry, at, crashed>>

\* connection.mu.Lock() of the next connection of the range.
LockConn(d, c) ==
  /\ deliverer[d] = "each"
  /\ c \in left[d]
  /\ LockConnMu(c, Deliverer(d))
  /\ left' = [left EXCEPT ![d] = @ \ {c}]
  /\ at' = [at EXCEPT ![d] = c]
  /\ Step(d, "send")
  /\ UNCHANGED <<serverMu, clientMu, registry, pumps, request, handlers, todo,
                 entry, crashed>>

\* The next connection's channels or filters drop the message.
SkipFiltered(d, c) ==
  /\ deliverer[d] = "each"
  /\ c \in left[d]
  /\ connMu[c] = Free
  /\ left' = [left EXCEPT ![d] = @ \ {c}]
  /\ UNCHANGED <<locks, registry, pumps, request, handlers, todo, entry, at,
                 deliverer, crashed>>

\* connection.send <- message: waits for room with all its mutexes held.
Deliver(d) ==
  LET c == at[d]
  IN  /\ deliverer[d] = "send"
      /\ Enqueue(c)
      /\ UnlockConnMu(c)
      /\ Step(d, "each")
      /\ UNCHANGED <<serverMu, clientMu, registry, socket, reader, writer, request,
                     handlers, job, crashed>>

\* The range is over: client.mu.Unlock(), return true.
ReceiverServed(d) ==
  /\ deliverer[d] = "each"
  /\ left[d] = {}
  /\ clientMu' = [clientMu EXCEPT ![entry[d]] = Free]
  /\ Step(d, "loop")
  /\ UNCHANGED <<serverMu, connMu, registry, pumps, request, handlers, job,
                 crashed>>

\* server.mu after the last receiver of d.
AfterDelivery(d) == IF d \in Senders THEN Free ELSE serverMu

\* Every receiver was served: a sender releases server.mu.
FinishDelivery(d) ==
  /\ deliverer[d] = "loop"
  /\ todo[d] = {}
  /\ serverMu' = AfterDelivery(d)
  /\ Step(d, "done")
  /\ UNCHANGED <<clientMu, connMu, registry, pumps, request, handlers, job,
                 crashed>>

-----------------------------------------------------------------------------
RequestStep(c) ==
  Validate(c) \/ RefuseUpgrade(c) \/ PanicInCreate(c) \/ Upgrade(c) \/ Register(c)

ReaderStep(c) ==
  \/ ReadFails(c)
  \/ DisconnectLockServer(c) \/ DisconnectLockConn(c) \/ DisconnectRemove(c)

WriterStep(c) == TakeMessage(c) \/ Flush(c) \/ PingFails(c)

HandlerStep(h) ==
  \/ ReplyUnlocked(h) \/ HandlerLockConn(h) \/ ReplyLocked(h)
  \/ DeleteLockServer(h) \/ DeleteFindsNoClient(h)
  \/ DeleteSilently(h) \/ DeleteFromList(h) \/ DeleteReply(h)

DelivererStep(d) ==
  \/ \E u \in Users : ReceiverAbsent(d, u) \/ ReceiverFound(d, u)
  \/ MapRace(d) \/ LockClient(d)
  \/ \E c \in Conns : LockConn(d, c) \/ SkipFiltered(d, c)
  \/ Deliver(d) \/ ReceiverServed(d) \/ FinishDelivery(d)

Arrival ==
  \/ \E c \in Conns, h \in Handlers, kind \in Actions : ReadFrame(c, h, kind)
  \/ \E d \in Deliverers, target \in SUBSET Users \ {{}} : StartRedirect(d, target)
  \/ \E d \in Deliverers, user \in Users : StartPush(d, user)

Next ==
  /\ ~crashed
  /\ \/ \E c \in Conns : RequestStep(c) \/ ReaderStep(c) \/ WriterStep(c) \/ Break(c)
     \/ \E h \in Handlers : HandlerStep(h)
     \/ \E d \in Deliverers : DelivererStep(d)
     \/ Arrival

Spec == Init /\ [][Next]_vars

\* Go runs every goroutine that can proceed and grants a free mutex to a waiter
\* in the end.  Weak fairness is enough for that here: every goroutine has
\* finitely many steps, so a mutex that is not held for ever is free for ever
\* in the end.  New requests, frames, messages and network failures may never
\* come.
Fairness ==
  /\ \A c \in Conns :
       /\ WF_vars(~crashed /\ request[c] # "new" /\ RequestStep(c))
       /\ WF_vars(~crashed /\ ReaderStep(c))
       /\ WF_vars(~crashed /\ WriterStep(c))
  /\ \A h \in Handlers : WF_vars(~crashed /\ HandlerStep(h))
  /\ \A d \in Deliverers : WF_vars(~crashed /\ DelivererStep(d))

FairSpec == Spec /\ Fairness

-----------------------------------------------------------------------------
(***************************************************************************)
(* Types.                                                                  *)
(***************************************************************************)
Entries == Conns \cup {NoClient}

\* Every variable of the pod's registry stays in its type; in particular a send
\* channel never holds more than Cap messages.
TypeOK ==
  /\ serverMu \in Goroutines \cup {Free}
  /\ clientMu \in [Conns -> Goroutines \cup {Free}]
  /\ connMu \in [Conns -> Goroutines \cup {Free}]
  /\ clients \in [Users -> Entries]
  /\ connections \in [Conns -> SUBSET Conns]
  /\ send \in [Conns -> 0 .. Cap]
  /\ socket \in [Conns -> {"none", "open", "broken", "closed"}]
  /\ request \in [Conns -> {"new", "validated", "creating", "connected",
                            "refused", "panicked"}]
  /\ reader \in [Conns -> {"off", "reading", "leaving", "haveServer",
                           "haveConn", "gone"}]
  /\ writer \in [Conns -> {"off", "select", "taken", "exited"}]
  /\ frame \in [Handlers -> [kind : FrameKinds, conn : Entries]]
  /\ handler \in [Handlers -> {"idle", "start", "reply", "wantServer",
                               "haveServer", "replyDelete", "done"}]
  /\ todo \in [Deliverers -> SUBSET Users]
  /\ entry \in [Deliverers -> Entries]
  /\ left \in [Deliverers -> SUBSET Conns]
  /\ at \in [Deliverers -> Entries]
  /\ deliverer \in [Deliverers -> {"idle", "loop", "client", "each", "send", "done"}]
  /\ crashed \in BOOLEAN

(***************************************************************************)
(* Who holds which mutex.                                                  *)
(***************************************************************************)
RequestHoldsServer(c)   == request[c] = "creating"
ReaderHoldsServer(c)    == reader[c] \in {"haveServer", "haveConn"}
HandlerHoldsServer(h)   == handler[h] \in {"haveServer", "replyDelete"}
DelivererHoldsServer(d) == d \in Senders /\ deliverer[d] \in {"loop", "client", "each", "send"}
HandlerHoldsConn(h) ==
  handler[h] \in {"reply", "wantServer", "haveServer", "replyDelete"}

ServerMuOwnership ==
  /\ \A c \in Conns : /\ (serverMu = Request(c)) <=> RequestHoldsServer(c)
                      /\ (serverMu = Reader(c)) <=> ReaderHoldsServer(c)
  /\ \A h \in Handlers : (serverMu = Handler(h)) <=> HandlerHoldsServer(h)
  /\ \A d \in Deliverers : (serverMu = Deliverer(d)) <=> DelivererHoldsServer(d)

ClientMuOwnership ==
  \A d \in Deliverers, k \in Conns :
    (clientMu[k] = Deliverer(d)) <=> (deliverer[d] \in {"each", "send"} /\ entry[d] = k)

ConnMuOwnership ==
  /\ \A b, c \in Conns :
       (connMu[c] = Reader(b)) <=> (b = c /\ reader[c] = "haveConn")
  /\ \A h \in Handlers, c \in Conns :
       (connMu[c] = Handler(h)) <=> (HandlerHoldsConn(h) /\ frame[h].conn = c)
  /\ \A d \in Deliverers, c \in Conns :
       (connMu[c] = Deliverer(d)) <=> (deliverer[d] = "send" /\ at[d] = c)

\* A goroutine is inside a critical section exactly when it holds the section's
\* mutex: no two goroutines are ever inside the sections of one mutex, and none
\* leaves a section without unlocking.
MutexOwnership == ServerMuOwnership /\ ClientMuOwnership /\ ConnMuOwnership

(***************************************************************************)
(* The registry.                                                           *)
(***************************************************************************)
Live(c) == reader[c] \in {"reading", "leaving", "haveServer", "haveConn"}

\* A connection whose pumps run and that was not disconnected is registered
\* exactly once: in the entry its user has now, never in an entry that was
\* deleted and replaced, and no other connection is registered anywhere.
RegisteredIffLive ==
  /\ \A c \in Conns : Live(c) => clients[Owner[c]] # NoClient
  /\ \A k, c \in Conns :
       c \in connections[k] <=> (Live(c) /\ clients[Owner[c]] = k)

\* disconnect leaves no empty entry behind: an entry without a connection is
\* one whose own request has not registered yet, or was refused its upgrade.
EmptyEntryAwaitsItsRequest ==
  \A u \in Users :
    LET k == clients[u]
    IN  k # NoClient /\ connections[k] = {}
          => Owner[k] = u /\ request[k] \in {"validated", "creating", "refused"}

\* No message is queued on a connection that was disconnected: whatever the
\* interleaving, a deliverer about to send finds its connection registered, in
\* the entry it locked.
DeliversOnlyToRegistered ==
  \A d \in Deliverers :
    deliverer[d] = "send" =>
      /\ Live(at[d])
      /\ at[d] \in connections[entry[d]]

\* A connection that left the registry never comes back (its address is not
\* registered again by a late goroutine), and its socket is closed by then.
GoneForGood ==
  [][\A c \in Conns : reader[c] = "gone" =>
       /\ reader'[c] = "gone" /\ socket'[c] = "closed"
       /\ \A k \in Conns : c \notin connections'[k]]_vars

(***************************************************************************)
(* The abstract registry this one implements: the two-level map of entries *)
(* that are created before the first connection and deleted with the last  *)
(* one is a map from users to sets of connections.                         *)
(***************************************************************************)
directoryBar ==
  [u \in Users |-> IF clients[u] = NoClient THEN {} ELSE connections[clients[u]]]

Directory == INSTANCE ConnectionDirectory
  WITH directory <- directoryBar,
       ended <- {c \in Conns : reader[c] = "gone"}

\* Every step of the pod adds one connection to its user's set, takes one out,
\* or leaves every user's set as it is.
ImplementsDirectory == Directory!Spec

(***************************************************************************)
(* Progress.                                                               *)
(***************************************************************************)

\* "disconnect client from server" (messages.go:2657): once the network
\* connection failed, the connection leaves the registry.
BrokenIsDisconnected ==
  \A c \in Conns : socket[c] = "broken" ~> (reader[c] = "gone" \/ crashed)

\* redirectMessageToSockets and the notification of an author return.
DeliveryReturns ==
  \A d \in Deliverers : deliverer[d] = "loop" ~> (deliverer[d] = "done" \/ crashed)

=============================================================================
