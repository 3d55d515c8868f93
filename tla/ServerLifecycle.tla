--------------------------- MODULE ServerLifecycle ---------------------------
(***************************************************************************)
(* The life of the process: framework.Run starts a web and an RPC server   *)
(* and waits for the end of each; a signal is turned into events; the      *)
(* event bus runs the handlers that have subscribed when an event is       *)
(* published, each in a goroutine of its own, and drops it if there are    *)
(* none.  The handlers of "Quit" are called with an argument that they do  *)
(* not take: they panic, the bus recovers them, and nothing happens.       *)
(***************************************************************************)
EXTENDS Naturals

CONSTANT MaxRequests  \* bound: requests that a server works on

ASSUME ServerLifecycleAssumption == MaxRequests \in Nat \ {0}

VARIABLES
  main,     \* how far Run has got, or "dead" when the process has ended
  topics,   \* the topics that have subscribers
  calls,    \* the handlers that the bus has started and that still run
  signal,   \* the goroutine of init that waits for a signal
  web, rpc, \* the goroutines that serve
  stopped,  \* the servers that were told to stop
  requests  \* the requests that a server works on

serverVars == <<main, topics, calls, signal, web, rpc, stopped, requests>>

ServerInit ==
  /\ main = "startWeb" /\ signal = "waits"
  /\ topics = {"log.fatal"} /\ calls = {} /\ stopped = {}
  /\ web = "off" /\ rpc = "off"
  /\ requests = [s \in {"web", "rpc"} |-> 0]

Alive == main # "dead"

\* Publish reads the handlers, without the mutex, and does not wait for them.
Heard(t) == t \in topics

Publish(t) == calls' = IF Heard(t) THEN calls \cup {t} ELSE calls

---------------------------------------------------------------------------
(* Run *)

StartWeb ==
  /\ main = "startWeb" /\ main' = "startRpc"
  /\ topics' = topics \cup {"ExitWebServer"}
  /\ web' = "ready"
  /\ UNCHANGED <<calls, signal, rpc, stopped, requests>>

\* If it cannot listen it says so, and serves nevertheless: see Serve.
StartRpc ==
  /\ main = "startRpc" /\ main' = "webWait"
  /\ \/ rpc' = "ready" /\ UNCHANGED calls
     \/ rpc' = "deaf" /\ Publish("log.fatal")
  /\ topics' = topics \cup {"ExitRpcServer"}
  /\ UNCHANGED <<signal, web, stopped, requests>>

\* Wait subscribes first, and then waits for its handler.
Waits(now, next, topic) ==
  /\ main = now /\ main' = next
  /\ topics' = topics \cup {topic}
  /\ UNCHANGED <<calls, signal, web, rpc, stopped, requests>>

WaitForWeb == Waits("webWait", "webBlocked", "WebServerExited")
WaitForRpc == Waits("rpcWait", "rpcBlocked", "RpcServerExited")

Woken(now, next, topic) ==
  /\ main = now /\ topic \in calls
  /\ main' = next
  /\ calls' = calls \ {topic}
  /\ UNCHANGED <<topics, signal, web, rpc, stopped, requests>>

WebEnded == Woken("webBlocked", "rpcWait", "WebServerExited")
RpcEnded == Woken("rpcBlocked", "returned", "RpcServerExited")

---------------------------------------------------------------------------
(* The signal, and the handlers of the events *)

\* Nobody takes a second signal.
TakeSignal ==
  /\ Alive /\ signal = "waits" /\ signal' = "web"
  /\ UNCHANGED <<main, topics, calls, web, rpc, stopped, requests>>

PublishExit ==
  /\ Alive
  /\ \/ signal = "web" /\ signal' = "rpc" /\ Publish("ExitWebServer")
     \/ signal = "rpc" /\ signal' = "gone" /\ Publish("ExitRpcServer")
  /\ UNCHANGED <<main, topics, web, rpc, stopped, requests>>

\* Shutdown closes the listener and leaves the requests in work, GracefulStop
\* lets nothing in either, and lets Serve return when they are done.
StopsWebTwice == [t \in {"ExitWebServer", "ExitRpcServer"} |-> "web"]

Stops ==
  [t \in {"ExitWebServer", "ExitRpcServer"} |-> IF t = "ExitWebServer" THEN "web" ELSE "rpc"]

Exit(t) ==
  /\ Alive /\ t \in calls
  /\ stopped' = stopped \cup {Stops[t]}
  /\ calls' = calls \ {t}
  /\ UNCHANGED <<main, topics, signal, web, rpc, requests>>

\* log.Fatal, and a panic of a bare goroutine, end the process.
Dies ==
  /\ main' = "dead"
  /\ UNCHANGED <<topics, calls, signal, web, rpc, stopped, requests>>

Fatal == Alive /\ "log.fatal" \in calls /\ Dies

---------------------------------------------------------------------------
(* The two goroutines that serve *)

\* ListenAndServe also returns at once when it cannot listen or was shut down.
Listen ==
  /\ Alive /\ web = "ready"
  /\ \/ "web" \notin stopped /\ web' = "serving"
     \/ web' = "closed"
  /\ UNCHANGED <<main, topics, calls, signal, rpc, stopped, requests>>

WebCloses ==
  /\ Alive /\ web = "serving" /\ "web" \in stopped
  /\ web' = "closed"
  /\ UNCHANGED <<main, topics, calls, signal, rpc, stopped, requests>>

WebExited ==
  /\ Alive /\ web = "closed" /\ web' = "done"
  /\ Publish("WebServerExited")
  /\ UNCHANGED <<main, topics, signal, rpc, stopped, requests>>

\* Serve with no listener panics; once it was stopped it refuses to serve.
Serve ==
  /\ Alive /\ rpc = "ready"
  /\ IF "rpc" \in stopped
     THEN rpc' = "closed" /\ Publish("log.fatal")
     ELSE rpc' = "serving" /\ UNCHANGED calls
  /\ UNCHANGED <<main, topics, signal, web, stopped, requests>>

ServeNothing == Alive /\ rpc = "deaf" /\ Dies

\* The exit handler calls GracefulStop.
NoWait == TRUE

Drained == requests["rpc"] = 0

RpcCloses ==
  /\ Alive /\ rpc = "serving" /\ "rpc" \in stopped /\ Drained
  /\ rpc' = "closed"
  /\ UNCHANGED <<main, topics, calls, signal, web, stopped, requests>>

\* The listener breaks: Serve returns an error.
RpcBreaks ==
  /\ Alive /\ rpc = "serving" /\ "rpc" \notin stopped
  /\ rpc' = "closed" /\ Publish("log.fatal")
  /\ UNCHANGED <<main, topics, signal, web, stopped, requests>>

RpcExited ==
  /\ Alive /\ rpc = "closed" /\ rpc' = "done"
  /\ Publish("RpcServerExited")
  /\ UNCHANGED <<main, topics, signal, web, stopped, requests>>

Serving(s) == s \notin stopped /\ (IF s = "web" THEN web ELSE rpc) = "serving"

Accept(s) ==
  /\ Alive /\ Serving(s) /\ requests[s] < MaxRequests
  /\ requests' = [requests EXCEPT ![s] = @ + 1]
  /\ UNCHANGED <<main, topics, calls, signal, web, rpc, stopped>>

Answer(s) ==
  /\ Alive /\ requests[s] > 0
  /\ requests' = [requests EXCEPT ![s] = @ - 1]
  /\ UNCHANGED <<main, topics, calls, signal, web, rpc, stopped>>

\* Publish reads the map that Subscribe, in Run, may be writing: the runtime
\* ends the process if it notices.
Publishing == web \in {"ready", "closed"} \/ rpc = "closed" \/ signal \in {"web", "rpc"}

BusRace ==
  /\ main \in {"startWeb", "startRpc", "webWait", "rpcWait"} /\ Publishing
  /\ Dies

Run == StartWeb \/ StartRpc \/ WaitForWeb \/ WebEnded \/ WaitForRpc \/ RpcEnded
Handle == Fatal \/ \E t \in DOMAIN Stops : Exit(t)
WebServes == Listen \/ WebCloses \/ WebExited
RpcServes == Serve \/ ServeNothing \/ RpcCloses \/ RpcExited

ServerNext ==
  \/ Run \/ TakeSignal \/ PublishExit \/ Handle \/ WebServes \/ RpcServes
  \/ RpcBreaks \/ BusRace
  \/ \E s \in {"web", "rpc"} : Accept(s) \/ Answer(s)

ServerSpec == ServerInit /\ [][ServerNext]_serverVars

---------------------------------------------------------------------------
Topics == {"log.fatal", "ExitWebServer", "ExitRpcServer", "WebServerExited", "RpcServerExited"}

ServerTypeOK ==
  /\ main \in {"startWeb", "startRpc", "webWait", "webBlocked", "rpcWait", "rpcBlocked",
               "returned", "dead"}
  /\ topics \subseteq Topics /\ calls \subseteq topics
  /\ signal \in {"waits", "web", "rpc", "gone"}
  /\ web \in {"off", "ready", "serving", "closed", "done"}
  /\ rpc \in {"off", "ready", "deaf", "serving", "closed", "done"}
  /\ stopped \subseteq {"web", "rpc"}
  /\ requests \in [{"web", "rpc"} -> 0 .. MaxRequests]

\* When Run returns both servers have stopped, and no call of an RPC client is
\* cut off, unless the process ends by log.Fatal anyway (app.go:122-129).
ReturnedMeansDone ==
  main = "returned" =>
    /\ web = "done" /\ rpc = "done"
    /\ requests["rpc"] = 0 \/ "log.fatal" \in calls

\* A signal that is taken after Start stops both servers (app.go:51-57) ...
SignalStops ==
  main \in {"webWait", "webBlocked"} /\ signal = "web"
    ~> (web = "done" /\ rpc = "done") \/ ~Alive

\* ... and ends Run: "wait for the exit event" (server.go:294, 744).
RunReturns ==
  main = "webBlocked" /\ web = "serving" /\ signal = "web" ~> main = "returned" \/ ~Alive
=============================================================================
