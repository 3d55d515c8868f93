---------------------------- MODULE AcceptedLinks ----------------------------
(***************************************************************************)
(* The websocket links that a pod accepts (server.go): those of            *)
(* applications, which get every message of a class, and those that the    *)
(* other pods dial (PeerLinks has the other end), whose messages are       *)
(* handled by the reader of the link.  Both kinds have the same pumps and  *)
(* the same disconnect; only an application is greeted.                    *)
(*                                                                         *)
(* Both handlers, whoever sends, and disconnect need ServerInstance.mu.    *)
(* The mutex of a link is held by its reader from LockConn to Disconnect,  *)
(* and by its write pump for the one step Flush.                           *)
(***************************************************************************)
EXTENDS Naturals, Sequences

CONSTANTS
  Links, Apps,
  AppOf,     \* the application of a link, or FromPod
  FromPod,
  Posters,   \* goroutines that redirect messages (redirectMessageToSockets)
  Capacity,  \* of a link's channel: 256 in the code
  MaxPosts   \* bound: messages

Unheld == "unheld"

ASSUME AcceptedLinksAssumption ==
  /\ AppOf \in [Links -> Apps \cup {FromPod}] /\ FromPod \notin Apps
  /\ Posters \cap Links = {} /\ Unheld \notin Posters \cup Links
  /\ Capacity \in Nat \ {0} /\ MaxPosts \in Nat

VARIABLES
  serverMu,         \* who holds ServerInstance.mu: a poster, or a link's goroutine
  registered,       \* ApplicationConnections and FromMessengerConnectionInstances
  handler,          \* of the request that makes the link
  conn, pinged,     \* the network connection; closed by a ping that failed
  reader, writer,   \* the two pumps
  channel,          \* what is in the channel send of each link
  taken,            \* what the write pump has taken from it
  socket,           \* what has been written to the peer
  left,             \* the links that a message is yet to be put on
  posts             \* messages so far

linksVars == <<serverMu, registered, handler, conn, pinged, reader, writer, channel, taken,
               socket, left, posts>>

PodLinks == {l \in Links : AppOf[l] = FromPod}
Threads == Posters \cup PodLinks

LinksInit ==
  /\ serverMu = Unheld /\ registered = {} /\ pinged = {} /\ posts = 0
  /\ handler = [l \in Links |-> "none"] /\ conn = [l \in Links |-> "none"]
  /\ reader = [l \in Links |-> "none"] /\ writer = [l \in Links |-> "none"]
  /\ channel = [l \in Links |-> <<>>] /\ socket = [l \in Links |-> <<>>]
  /\ taken = [l \in Links |-> "nothing"]
  /\ left = [a \in Threads |-> {}]

HasRoom(l) == Len(channel[l]) < Capacity

Puts(l, m) == channel' = [channel EXCEPT ![l] = Append(@, m)]

-----------------------------------------------------------------------------
(* The handlers of the requests for a link *)

AcceptLink(l) ==
  /\ handler[l] = "none" /\ serverMu = Unheld
  /\ serverMu' = l
  /\ handler' = [handler EXCEPT ![l] = "upgrade"]
  /\ UNCHANGED <<registered, conn, pinged, reader, writer, channel, taken, socket, left, posts>>

UpgradeFails(l) ==
  /\ handler[l] = "upgrade"
  /\ handler' = [handler EXCEPT ![l] = "done"]
  /\ serverMu' = Unheld
  /\ UNCHANGED <<registered, conn, pinged, reader, writer, channel, taken, socket, left, posts>>

\* An application's handler keeps the mutex until it has queued the greeting;
\* the pumps run already, and the link is registered.
LetsGo(l) == Unheld

KeepsMutex(l) == IF AppOf[l] = FromPod THEN Unheld ELSE l

Upgrade(l) ==
  /\ handler[l] = "upgrade"
  /\ conn' = [conn EXCEPT ![l] = "open"]
  /\ registered' = registered \cup {l}
  /\ reader' = [reader EXCEPT ![l] = "read"] /\ writer' = [writer EXCEPT ![l] = "wait"]
  /\ handler' = [handler EXCEPT ![l] = IF AppOf[l] = FromPod THEN "done" ELSE "greet"]
  /\ serverMu' = KeepsMutex(l)
  /\ UNCHANGED <<pinged, channel, taken, socket, left, posts>>

Greet(l) ==
  /\ handler[l] = "greet" /\ HasRoom(l)
  /\ Puts(l, "greeting")
  /\ handler' = [handler EXCEPT ![l] = "done"]
  /\ serverMu' = Unheld
  /\ UNCHANGED <<registered, conn, pinged, reader, writer, taken, socket, left, posts>>

-----------------------------------------------------------------------------
(* The reader, and disconnect at its end *)

Break(l) ==
  /\ conn[l] = "open" /\ conn' = [conn EXCEPT ![l] = "broken"]
  /\ UNCHANGED <<serverMu, registered, handler, pinged, reader, writer, channel, taken, socket,
                 left, posts>>

ReadFrame(l) ==
  /\ l \in PodLinks /\ reader[l] = "read" /\ conn[l] = "open" /\ posts < MaxPosts
  /\ posts' = posts + 1
  /\ reader' = [reader EXCEPT ![l] = "handle"]
  /\ UNCHANGED <<serverMu, registered, handler, conn, pinged, writer, channel, taken, socket, left>>

LockConn(l) ==
  /\ reader[l] = "read" /\ conn[l] \in {"broken", "closed"}
  /\ reader' = [reader EXCEPT ![l] = "locked"]
  /\ UNCHANGED <<serverMu, registered, handler, conn, pinged, writer, channel, taken, socket,
                 left, posts>>

\* Close fails when a ping has closed the connection; then nothing is deleted.
OnlyIfOpen(l) == conn[l] = "open"

Closable(l) == conn[l] # "closed"

AtOnce(l) == reader[l] = "locked"

MayDisconnect(l) == reader[l] = "locked" /\ serverMu = Unheld

DisconnectLink(l) ==
  /\ MayDisconnect(l)
  /\ conn' = [conn EXCEPT ![l] = "closed"]
  /\ registered' = IF Closable(l) THEN registered \ {l} ELSE registered
  /\ reader' = [reader EXCEPT ![l] = "gone"]
  /\ UNCHANGED <<serverMu, handler, pinged, writer, channel, taken, socket, left, posts>>

-----------------------------------------------------------------------------
(* The write pump.  A write that fails does not end it; a ping does. *)

TakeMessage(l) ==
  /\ writer[l] = "wait" /\ channel[l] # <<>>
  /\ taken' = [taken EXCEPT ![l] = Head(channel[l])]
  /\ channel' = [channel EXCEPT ![l] = Tail(@)]
  /\ writer' = [writer EXCEPT ![l] = "write"]
  /\ UNCHANGED <<serverMu, registered, handler, conn, pinged, reader, socket, left, posts>>

\* What is queued goes into the frame.  When the write fails, the message is
\* lost, with some of those that were to go with it.
Flush(l) ==
  /\ writer[l] = "write" /\ reader[l] # "locked"
  /\ writer' = [writer EXCEPT ![l] = "wait"]
  /\ taken' = [taken EXCEPT ![l] = "nothing"]
  /\ \/ /\ conn[l] = "open"
        /\ socket' = [socket EXCEPT ![l] = Append(@, taken[l]) \o channel[l]]
        /\ channel' = [channel EXCEPT ![l] = <<>>]
     \/ /\ conn[l] # "open"
        /\ \E n \in 0 .. Len(channel[l]) :
             channel' = [channel EXCEPT ![l] = SubSeq(@, n + 1, Len(@))]
        /\ UNCHANGED socket
  /\ UNCHANGED <<serverMu, registered, handler, conn, pinged, reader, left, posts>>

PingFails(l) ==
  /\ writer[l] = "wait" /\ conn[l] \in {"broken", "closed"}
  /\ writer' = [writer EXCEPT ![l] = "gone"]
  /\ conn' = [conn EXCEPT ![l] = "closed"]
  /\ pinged' = IF conn[l] = "broken" THEN pinged \cup {l} ELSE pinged
  /\ UNCHANGED <<serverMu, registered, handler, reader, channel, taken, socket, left, posts>>

-----------------------------------------------------------------------------
(* A message for an application, or for none (then there is no link to put   *)
(* it on; the same when another pod's message cannot be decoded).           *)

Targets(app) == {l \in registered : AppOf[l] = app}

BeginPost(a) ==
  /\ serverMu = Unheld
  /\ \/ a \in PodLinks /\ reader[a] = "handle" /\ UNCHANGED posts
     \/ a \in Posters /\ posts < MaxPosts /\ posts' = posts + 1
  /\ serverMu' = a
  /\ \E to \in {Targets(app) : app \in Apps} \cup {{}} : left' = [left EXCEPT ![a] = to]
  /\ UNCHANGED <<registered, handler, conn, pinged, reader, writer, channel, taken, socket>>

PutOn(a) ==
  /\ serverMu = a
  /\ \E l \in left[a] :
       /\ HasRoom(l) /\ Puts(l, "message")
       /\ left' = [left EXCEPT ![a] = @ \ {l}]
  /\ UNCHANGED <<serverMu, registered, handler, conn, pinged, reader, writer, taken, socket, posts>>

EndPost(a) ==
  /\ serverMu = a /\ left[a] = {}
  /\ a \in PodLinks => reader[a] = "handle"
  /\ serverMu' = Unheld
  /\ reader' = [l \in Links |-> IF l = a THEN "read" ELSE reader[l]]
  /\ UNCHANGED <<registered, handler, conn, pinged, writer, channel, taken, socket, left, posts>>

LinksNext ==
  \/ \E l \in Links :
       \/ AcceptLink(l) \/ UpgradeFails(l) \/ Upgrade(l) \/ Greet(l)
       \/ Break(l) \/ ReadFrame(l) \/ LockConn(l) \/ DisconnectLink(l)
       \/ TakeMessage(l) \/ Flush(l) \/ PingFails(l)
  \/ \E a \in Threads : BeginPost(a) \/ PutOn(a) \/ EndPost(a)

LinksSpec == LinksInit /\ [][LinksNext]_linksVars

-----------------------------------------------------------------------------
LinksTypeOK ==
  /\ serverMu \in Threads \cup Links \cup {Unheld}
  /\ registered \subseteq Links /\ pinged \subseteq Links
  /\ handler \in [Links -> {"none", "upgrade", "greet", "done"}]
  /\ conn \in [Links -> {"none", "open", "broken", "closed"}]
  /\ reader \in [Links -> {"none", "read", "handle", "locked", "gone"}]
  /\ writer \in [Links -> {"none", "wait", "write", "gone"}]
  /\ channel \in [Links -> Seq({"greeting", "message"})]
  /\ \A l \in Links : Len(channel[l]) <= Capacity
  /\ taken \in [Links -> {"nothing", "greeting", "message"}]
  /\ socket \in [Links -> Seq({"greeting", "message"})]
  /\ left \in [Threads -> SUBSET Links]
  /\ posts \in 0 .. MaxPosts

\* The first thing an application hears is that it is connected
\* (server.go:124-133), although it is registered, and its pumps run, before
\* the greeting is queued: nobody can send to it in between.
GreetingFirst ==
  \A l \in Links \ PodLinks : socket[l] # <<>> => Head(socket[l]) = "greeting"

\* The early return of disconnect (server.go:328, 643) leaves an entry behind
\* only when a failed ping closed the connection first: whatever else ends a
\* reader, its link leaves the map.
GhostOnlyIfPinged ==
  \A l \in registered : reader[l] = "gone" => l \in pinged

\* Once disconnect has taken a link out, nothing more is put on its channel,
\* also by a sender that had it in its range (messages.go:2193): nobody would
\* take it, and the channel would stop the pod when it is full.
QuietAfterDisconnect ==
  [][\A l \in Links : reader[l] = "gone" /\ l \notin pinged
       => Len(channel'[l]) <= Len(channel[l])]_linksVars
=============================================================================
