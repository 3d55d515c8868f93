------------------------------ MODULE PeerLinks ------------------------------
(***************************************************************************)
(* The websocket links that each pod of the service dials to the others    *)
(* (server.go): the goroutine that looks for pods it has no link to and    *)
(* dials all of them again, the two pumps of a link, and the messages that *)
(* redirectMessageToSockets puts on the links under ServerInstance.mu.     *)
(*                                                                         *)
(* A container that ends is started again under the same address, so a pod *)
(* is named by the URL the others dial.  The accepting end of a link only  *)
(* matters here by the ServerInstance.mu its handler needs.                *)
(***************************************************************************)
EXTENDS Naturals

CONSTANTS
  Pods,
  Dialling,  \* those in release mode; the others serve and dial nobody
  Links,     \* names of links; a name is used again when nothing refers to it
  NoLink, NoPod,
  Cap,       \* capacity of ToMessengerConnection.send (256 in the code)
  MaxSends,  \* bound: the number of messages each pod redirects
  Faults     \* what may happen: "ping", "api", "dial", "crash"

ASSUME LinksAssumption ==
  /\ Dialling \subseteq Pods
  /\ NoLink \notin Links /\ NoPod \notin Pods
  /\ Cap \in Nat \ {0} /\ MaxSends \in [Pods -> Nat]

VARIABLES
  running,    \* the state of each pod's process
  serverMu,   \* holder of each pod's ServerInstance.mu
  instances,  \* ToMessengerConnectionInstances of each pod
  loop,       \* the goroutine that keeps the links, or InitializeServer
  visited,    \* the links its range over the old ones has passed
  tearing,    \* the one it disconnects
  todo,       \* the pods it has left to dial
  callee,     \* the one it dials
  from, to,   \* the ends of each link
  conn,       \* the dialling end's network connection
  connMu,     \* holder of each ToMessengerConnection.mu
  queue,      \* number of messages in each ToMessengerConnection.send
  reader,     \* each readPump
  writer,     \* each writePump
  left,       \* the links a redirectMessageToSockets has left to send on
  sends       \* how many of these the pod has begun

keeper == <<loop, visited, tearing, todo, callee>>
ends   == <<from, to>>
pumps  == <<reader, writer>>
sender == <<left, sends>>
vars == <<running, serverMu, instances, keeper, ends, conn, connMu, queue, pumps, sender>>

Free == "free"
NoLinks == [q \in Pods |-> NoLink]
Registered(p) == {instances[p][q] : q \in Pods} \ {NoLink}

Init ==
  /\ running = [p \in Pods |-> "off"]
  /\ serverMu = [p \in Pods |-> Free]
  /\ instances = [p \in Pods |-> NoLinks]
  /\ loop = [p \in Pods |-> "off"]
  /\ visited = [p \in Pods |-> {}]
  /\ tearing = [p \in Pods |-> NoLink]
  /\ todo = [p \in Pods |-> {}]
  /\ callee = [p \in Pods |-> NoPod]
  /\ from = [l \in Links |-> NoPod] /\ to = [l \in Links |-> NoPod]
  /\ conn = [l \in Links |-> "closed"]
  /\ connMu = [l \in Links |-> Free]
  /\ queue = [l \in Links |-> 0]
  /\ reader = [l \in Links |-> "gone"]
  /\ writer = [l \in Links |-> "gone"]
  /\ left = [p \in Pods |-> {}]
  /\ sends = [p \in Pods |-> 0]

-----------------------------------------------------------------------------
(***************************************************************************)
(* disconnect, on the pod that dialled.  Close fails on a connection that  *)
(* was closed before, and then the map stays as it is; otherwise the entry *)
(* of the link's URL is deleted, whichever link it holds.                  *)
(***************************************************************************)

\* Variants: the entry is deleted though Close failed; a connection that is
\* broken counts as closed already.
DeleteAnyway(l) == TRUE
NotIfBroken(l) == conn[l] = "open"

Closes(l) == conn[l] # "closed"

CloseAndDelete(l) ==
  /\ conn' = [conn EXCEPT ![l] = "closed"]
  /\ instances' = IF Closes(l) THEN [instances EXCEPT ![from[l]][to[l]] = NoLink]
                  ELSE instances

-----------------------------------------------------------------------------
(***************************************************************************)
(* The goroutine that keeps the links.                                     *)
(***************************************************************************)

\* The process starts: InitializeServer dials, with the mutex of a server that
\* is not ServerInstance yet; Kubernetes calls the pod "Running".
Start(p) ==
  /\ running[p] = "off"
  /\ running' = [running EXCEPT ![p] = IF p \in Dialling THEN "starting" ELSE "serving"]
  /\ loop' = [loop EXCEPT ![p] = IF p \in Dialling THEN "tear" ELSE "ended"]
  /\ UNCHANGED <<serverMu, instances, visited, tearing, todo, callee, ends, conn,
                 connMu, queue, pumps, sender>>

Others(p) == {q \in Pods \ {p} : running[q] # "off"}
Missing(p) == {q \in Others(p) : instances[p][q] = NoLink}

\* The ticker: a running pod without a link makes it dial all pods again.
Tick(p) ==
  /\ loop[p] = "tick"
  /\ serverMu[p] = Free
  /\ Missing(p) # {}
  /\ loop' = [loop EXCEPT ![p] = "tear"]
  /\ UNCHANGED <<running, serverMu, instances, visited, tearing, todo, callee, ends,
                 conn, connMu, queue, pumps, sender>>

\* GetService or ListPods fails: the goroutine returns.
TickFails(p) ==
  /\ "api" \in Faults
  /\ loop[p] = "tick"
  /\ loop' = [loop EXCEPT ![p] = "ended"]
  /\ UNCHANGED <<running, serverMu, instances, visited, tearing, todo, callee, ends,
                 conn, connMu, queue, pumps, sender>>

\* The range over the old links, under no mutex: disconnect the next one.
TearNext(p) ==
  /\ loop[p] = "tear"
  /\ \E l \in Registered(p) \ visited[p] :
       /\ connMu[l] = Free
       /\ connMu' = [connMu EXCEPT ![l] = "loop"]
       /\ tearing' = [tearing EXCEPT ![p] = l]
       /\ visited' = [visited EXCEPT ![p] = @ \cup {l}]
  /\ loop' = [loop EXCEPT ![p] = "tearing"]
  /\ UNCHANGED <<running, serverMu, instances, todo, callee, ends, conn, queue,
                 pumps, sender>>

Tear(p) ==
  LET l == tearing[p]
  IN  /\ loop[p] = "tearing"
      /\ serverMu[p] = Free
      /\ CloseAndDelete(l)
      /\ connMu' = [connMu EXCEPT ![l] = Free]
      /\ tearing' = [tearing EXCEPT ![p] = NoLink]
      /\ loop' = [loop EXCEPT ![p] = "tear"]
      /\ UNCHANGED <<running, serverMu, visited, todo, callee, ends, queue, pumps,
                     sender>>

\* The service is up once InitializeServer returned, with or without links.
Serving(p) == running' = [running EXCEPT ![p] = "serving"]

\* server.mu.Lock(), a new map, and the list of pods.
Reset(p) ==
  /\ loop[p] = "tear"
  /\ Registered(p) \subseteq visited[p]
  /\ serverMu[p] = Free
  /\ serverMu' = [serverMu EXCEPT ![p] = "loop"]
  /\ instances' = [instances EXCEPT ![p] = NoLinks]
  /\ visited' = [visited EXCEPT ![p] = {}]
  /\ todo' = [todo EXCEPT ![p] = Others(p)]
  /\ loop' = [loop EXCEPT ![p] = "dial"]
  /\ UNCHANGED <<running, tearing, callee, ends, conn, connMu, queue, pumps, sender>>

\* The same, when GetService or ListPods fails: an early return.
ResetFails(p) ==
  /\ "api" \in Faults
  /\ loop[p] = "tear"
  /\ Registered(p) \subseteq visited[p]
  /\ serverMu[p] = Free
  /\ instances' = [instances EXCEPT ![p] = NoLinks]
  /\ visited' = [visited EXCEPT ![p] = {}]
  /\ loop' = [loop EXCEPT ![p] = "tick"]
  /\ Serving(p)
  /\ UNCHANGED <<serverMu, tearing, todo, callee, ends, conn, connMu, queue, pumps,
                 sender>>

\* websocket.DefaultDialer.Dial, with server.mu held.
Dial(p) ==
  /\ loop[p] = "dial"
  /\ \E q \in todo[p] :
       /\ callee' = [callee EXCEPT ![p] = q]
       /\ todo' = [todo EXCEPT ![p] = @ \ {q}]
  /\ loop' = [loop EXCEPT ![p] = "calling"]
  /\ UNCHANGED <<running, serverMu, instances, visited, tearing, ends, conn, connMu,
                 queue, pumps, sender>>

\* Nothing refers to the link any more.
Spare(l) ==
  /\ reader[l] = "gone" /\ writer[l] = "gone"
  /\ \A p \in Pods : l \notin Registered(p) \cup visited[p] \cup left[p] \cup {tearing[p]}

\* createWebSocketConnectionForInstance on the other pod gets its
\* ServerInstance.mu and upgrades; the dialler registers the link and starts
\* its pumps.
Connected(p) ==
  LET q == callee[p]
  IN  /\ loop[p] = "calling"
      /\ running[q] = "serving" /\ serverMu[q] = Free
      /\ \E l \in Links :
           /\ Spare(l)
           /\ from' = [from EXCEPT ![l] = p] /\ to' = [to EXCEPT ![l] = q]
           /\ conn' = [conn EXCEPT ![l] = "open"]
           /\ queue' = [queue EXCEPT ![l] = 0]
           /\ reader' = [reader EXCEPT ![l] = "reading"]
           /\ writer' = [writer EXCEPT ![l] = "select"]
           /\ instances' = [instances EXCEPT ![p][q] = l]
      /\ callee' = [callee EXCEPT ![p] = NoPod]
      /\ loop' = [loop EXCEPT ![p] = "dial"]
      /\ UNCHANGED <<running, serverMu, visited, tearing, todo, connMu, sender>>

\* The other pod does not listen yet, or does not answer in time: its handler
\* waits for its ServerInstance.mu (DefaultDialer.HandshakeTimeout).  Refused alone
\* is the variant that waits as long as it takes.
Refused(q) == running[q] # "serving"
GivesUp(q) == Refused(q) \/ serverMu[q] # Free \/ "dial" \in Faults

DialFails(p) ==
  LET q == callee[p]
  IN  /\ loop[p] = "calling"
      /\ GivesUp(q) \/ ~\E l \in Links : Spare(l)  \* bound: the links in use at once
      /\ callee' = [callee EXCEPT ![p] = NoPod]
      /\ loop' = [loop EXCEPT ![p] = "dial"]
      /\ UNCHANGED <<running, serverMu, instances, visited, tearing, todo, ends, conn,
                     connMu, queue, pumps, sender>>

Dialled(p) ==
  /\ loop[p] = "dial"
  /\ todo[p] = {}
  /\ serverMu' = [serverMu EXCEPT ![p] = Free]
  /\ loop' = [loop EXCEPT ![p] = "tick"]
  /\ Serving(p)
  /\ UNCHANGED <<instances, visited, tearing, todo, callee, ends, conn, connMu, queue,
                 pumps, sender>>

-----------------------------------------------------------------------------
(***************************************************************************)
(* The pumps of a link.                                                    *)
(***************************************************************************)

\* The network fails (the environment).
Break(l) ==
  /\ conn[l] = "open"
  /\ conn' = [conn EXCEPT ![l] = "broken"]
  /\ UNCHANGED <<running, serverMu, instances, keeper, ends, connMu, queue, pumps, sender>>

\* readPump: ReadMessage fails; the deferred disconnect begins.
ReadFails(l) ==
  /\ reader[l] = "reading"
  /\ conn[l] # "open"
  /\ reader' = [reader EXCEPT ![l] = "leaving"]
  /\ UNCHANGED <<running, serverMu, instances, keeper, ends, conn, connMu, queue, writer,
                 sender>>

\* disconnect: conn.mu.Lock()
LockConn(l) ==
  /\ reader[l] = "leaving"
  /\ connMu[l] = Free
  /\ connMu' = [connMu EXCEPT ![l] = "reader"]
  /\ reader' = [reader EXCEPT ![l] = "locked"]
  /\ UNCHANGED <<running, serverMu, instances, keeper, ends, conn, queue, writer, sender>>

\* disconnect: ServerInstance.mu.Lock() and the rest.
Disconnect(l) ==
  /\ reader[l] = "locked"
  /\ running[from[l]] = "serving"
  /\ serverMu[from[l]] = Free
  /\ CloseAndDelete(l)
  /\ connMu' = [connMu EXCEPT ![l] = Free]
  /\ reader' = [reader EXCEPT ![l] = "gone"]
  /\ UNCHANGED <<running, serverMu, keeper, ends, queue, writer, sender>>

\* writePump: case message := <-conn.send
TakeMessage(l) ==
  /\ writer[l] = "select"
  /\ queue[l] > 0
  /\ queue' = [queue EXCEPT ![l] = @ - 1]
  /\ writer' = [writer EXCEPT ![l] = "taken"]
  /\ UNCHANGED <<running, serverMu, instances, keeper, ends, conn, connMu, reader, sender>>

\* Under conn.mu: the message and those queued behind it.  A write error ends
\* the critical section early; the pump goes on.
Flush(l) ==
  /\ writer[l] = "taken"
  /\ connMu[l] = Free
  /\ \E rest \in 0 .. queue[l] :
       /\ conn[l] = "open" => rest = 0
       /\ queue' = [queue EXCEPT ![l] = rest]
  /\ writer' = [writer EXCEPT ![l] = "select"]
  /\ UNCHANGED <<running, serverMu, instances, keeper, ends, conn, connMu, reader, sender>>

\* A ping fails: the pump returns and closes the connection.  The fault "ping"
\* is that it does so before readPump has found the connection broken.
PingFails(l) ==
  /\ writer[l] = "select"
  /\ conn[l] = "closed" \/ (conn[l] = "broken" /\ "ping" \in Faults)
  /\ writer' = [writer EXCEPT ![l] = "gone"]
  /\ conn' = [conn EXCEPT ![l] = "closed"]
  /\ UNCHANGED <<running, serverMu, instances, keeper, ends, connMu, queue, reader, sender>>

-----------------------------------------------------------------------------
(***************************************************************************)
(* redirectMessageToSockets, as far as the links go.                       *)
(***************************************************************************)
BeginSend(p) ==
  /\ running[p] = "serving"
  /\ serverMu[p] = Free
  /\ sends[p] < MaxSends[p]
  /\ serverMu' = [serverMu EXCEPT ![p] = "sender"]
  /\ left' = [left EXCEPT ![p] = Registered(p)]
  /\ sends' = [sends EXCEPT ![p] = @ + 1]
  /\ UNCHANGED <<running, instances, keeper, ends, conn, connMu, queue, pumps>>

HasRoom(l) == queue[l] < Cap

\* v.send <- message waits for room, with server.mu held.
SendOn(p, l) ==
  /\ l \in left[p]
  /\ HasRoom(l)
  /\ queue' = [queue EXCEPT ![l] = @ + 1]
  /\ left' = [left EXCEPT ![p] = @ \ {l}]
  /\ UNCHANGED <<running, serverMu, instances, keeper, ends, conn, connMu, pumps, sends>>

EndSend(p) ==
  /\ serverMu[p] = "sender"
  /\ left[p] = {}
  /\ serverMu' = [serverMu EXCEPT ![p] = Free]
  /\ UNCHANGED <<running, instances, keeper, ends, conn, connMu, queue, pumps, sender>>

-----------------------------------------------------------------------------
(***************************************************************************)
(* The end of a process.                                                   *)
(***************************************************************************)

\* A link breaks while InitializeServer still dials: disconnect dereferences
\* ServerInstance, which is nil, in a bare goroutine.
NilServer(p) ==
  running[p] = "starting" /\ \E l \in Links : from[l] = p /\ reader[l] = "locked"

\* The range of the keeper meets the delete of a disconnect: the runtime may
\* stop the process (concurrent map iteration and map write).
MapRace(p) ==
  loop[p] = "tear" /\ \E l \in Links : from[l] = p /\ reader[l] = "locked"

\* The container ends: of its memory nothing stays, the links to it break.
Crash(p) ==
  /\ running[p] # "off"
  /\ "crash" \in Faults \/ NilServer(p) \/ MapRace(p)
  /\ running' = [running EXCEPT ![p] = "off"]
  /\ serverMu' = [serverMu EXCEPT ![p] = Free]
  /\ instances' = [instances EXCEPT ![p] = NoLinks]
  /\ loop' = [loop EXCEPT ![p] = "off"]
  /\ visited' = [visited EXCEPT ![p] = {}]
  /\ tearing' = [tearing EXCEPT ![p] = NoLink]
  /\ todo' = [todo EXCEPT ![p] = {}]
  /\ callee' = [callee EXCEPT ![p] = NoPod]
  /\ conn' = [l \in Links |->
                IF from[l] = p THEN "closed"
                ELSE IF to[l] = p /\ conn[l] = "open" THEN "broken" ELSE conn[l]]
  /\ connMu' = [l \in Links |-> IF from[l] = p THEN Free ELSE connMu[l]]
  /\ reader' = [l \in Links |-> IF from[l] = p THEN "gone" ELSE reader[l]]
  /\ writer' = [l \in Links |-> IF from[l] = p THEN "gone" ELSE writer[l]]
  /\ left' = [left EXCEPT ![p] = {}]
  /\ UNCHANGED <<ends, queue, sends>>

-----------------------------------------------------------------------------
Keep(p) ==
  \/ TearNext(p) \/ Tear(p) \/ Reset(p) \/ ResetFails(p)
  \/ Dial(p) \/ Connected(p) \/ DialFails(p) \/ Dialled(p)

Read(l)  == ReadFails(l) \/ LockConn(l) \/ Disconnect(l)
Write(l) == TakeMessage(l) \/ Flush(l) \/ PingFails(l)
Send(p)  == (\E l \in Links : SendOn(p, l)) \/ EndSend(p)

Next ==
  \/ \E p \in Pods : \/ Start(p) \/ Tick(p) \/ TickFails(p) \/ Keep(p)
                     \/ BeginSend(p) \/ Send(p) \/ Crash(p)
  \/ \E l \in Links : Break(l) \/ Read(l) \/ Write(l)

Spec == Init /\ [][Next]_vars

(***************************************************************************)
(* Each goroutine runs on, also past a mutex that is free again and again; *)
(* a dial ends, with a link or without.  Nothing is assumed of the network *)
(* and of Kubernetes.                                                      *)
(***************************************************************************)
Fairness ==
  /\ \A p \in Pods : SF_vars(Tick(p) \/ Keep(p)) /\ WF_vars(Send(p))
  /\ \A l \in Links : SF_vars(Read(l)) /\ SF_vars(TakeMessage(l) \/ Flush(l))

FairSpec == Spec /\ Fairness

-----------------------------------------------------------------------------
TypeOK ==
  /\ running \in [Pods -> {"off", "starting", "serving"}]
  /\ serverMu \in [Pods -> {Free, "loop", "sender"}]
  /\ instances \in [Pods -> [Pods -> Links \cup {NoLink}]]
  /\ loop \in [Pods -> {"off", "tick", "ended", "tear", "tearing", "dial", "calling"}]
  /\ visited \in [Pods -> SUBSET Links]
  /\ tearing \in [Pods -> Links \cup {NoLink}]
  /\ todo \in [Pods -> SUBSET Pods]
  /\ callee \in [Pods -> Pods \cup {NoPod}]
  /\ from \in [Links -> Pods \cup {NoPod}]
  /\ to \in [Links -> Pods \cup {NoPod}]
  /\ conn \in [Links -> {"open", "broken", "closed"}]
  /\ connMu \in [Links -> {Free, "loop", "reader"}]
  /\ queue \in [Links -> 0 .. Cap]
  /\ reader \in [Links -> {"reading", "leaving", "locked", "gone"}]
  /\ writer \in [Links -> {"select", "taken", "gone"}]
  /\ left \in [Pods -> SUBSET Links]
  /\ \A p \in Pods : sends[p] \in 0 .. MaxSends[p]

(***************************************************************************)
(* A link whose connection is open is the one its pod sends on: the late   *)
(* disconnect of an old link to the same URL never takes the new one out   *)
(* of the map.  Otherwise the new link stays open, unused, and every       *)
(* message for that pod misses it until the next round of dialling.        *)
(***************************************************************************)
OpenIsRegistered ==
  \A l \in Links : conn[l] = "open" => instances[from[l]][to[l]] = l

(***************************************************************************)
(* disconnect (server.go:476): a link that no longer works leaves the map, *)
(* so that the ticker sees the pod as missing and dials it again.          *)
(***************************************************************************)
Dead(l) == conn[l] # "open" /\ \E p \in Pods : l \in Registered(p)

DeadLeaves == \A l \in Links : Dead(l) ~> ~Dead(l)

(***************************************************************************)
(* Whoever wants ServerInstance.mu of a pod that goes on dialling gets it: *)
(* a round of dialling ends, even when two pods dial each other at once    *)
(* and each needs the mutex that the other one holds meanwhile.            *)
(***************************************************************************)
DiallingEnds == \A p \in Pods : (serverMu[p] = "loop") ~> (serverMu[p] # "loop")


=============================================================================
