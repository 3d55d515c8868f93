----------------------------- MODULE MCFramework -----------------------------
(***************************************************************************)
(* The parts of the framework, for TLC.  They share no state: a behaviour  *)
(* is one of one part, and the others stay as they are.                    *)
(***************************************************************************)
EXTENDS RedisLock, ServerLifecycle, MapListener, ConfigWatch, TLC

CONSTANTS r1, r2, r3, license, service, k1, k2, debug, other

VARIABLE part

MCStyle == r1 :> "script" @@ r2 :> "script" @@ r3 :> "setnx"

Watching(m, ks) == [map |-> m, keys |-> ks]

\* Two config maps, of one file and of two; or one config map, named twice.
MCPlans ==
  {<<Watching(license, <<k1>>), Watching(service, <<k1, k2>>)>>,
   <<Watching(service, <<k1>>), Watching(service, <<k1, k2>>)>>}

File(s, F) == [shape |-> s, fields |-> F]

\* The fields of the files overlap, and a later version may lack a field, be
\* malformed, or be gone.
MCContent ==
  license :> (k1 :> <<File("map", {debug, other}), File("void", {})>> @@
              k2 :> <<File("absent", {}), File("absent", {})>>) @@
  service :> (k1 :> <<File("map", {debug, other}), File("map", {debug}), File("map", {debug})>> @@
              k2 :> <<File("absent", {}), File("map", {other}), File("unread", {})>>)

MCMaxVersion == license :> 2 @@ service :> 3

\* The types of all parts; their modules have one part each.
FrameworkTypeOK == RedisLockTypeOK /\ ServerTypeOK /\ ListenerTypeOK /\ ConfigTypeOK

parts == <<redisLockVars, serverVars, listenerVars, configVars>>

Parts == {"lock", "server", "listener", "watch"}

Init ==
  /\ part \in Parts
  /\ RedisLockInit /\ ServerInit /\ ListenerInit /\ ConfigInit
  /\ part # "watch" => plan = CHOOSE p \in Plans : TRUE

Next ==
  \/ part = "lock" /\ RedisLockNext /\ UNCHANGED <<part, serverVars, listenerVars, configVars>>
  \/ part = "server" /\ ServerNext /\ UNCHANGED <<part, redisLockVars, listenerVars, configVars>>
  \/ part = "listener" /\ ListenerNext /\ UNCHANGED <<part, redisLockVars, serverVars, configVars>>
  \/ part = "watch" /\ ConfigNext /\ UNCHANGED <<part, redisLockVars, serverVars, listenerVars>>

vars == <<parts, part>>

\* Each goroutine that can go on does: those of Run, of the signal, of the
\* handlers and of the servers, the pollers and StopListenConfigMap.  Requests
\* are answered; nothing makes one arrive, breaks a listener or changes a config map.
Server(A) == part = "server" /\ A /\ UNCHANGED <<part, redisLockVars, listenerVars, configVars>>

Listener(A) == part = "listener" /\ A /\ UNCHANGED <<part, redisLockVars, serverVars, configVars>>

Fairness ==
  /\ WF_vars(Server(Run)) /\ WF_vars(Server(PublishExit)) /\ WF_vars(Server(Handle))
  /\ WF_vars(Server(WebServes)) /\ WF_vars(Server(RpcServes)) /\ WF_vars(Server(Answer("rpc")))
  /\ \A i \in Listeners : WF_vars(Listener(Poll(i)))
  /\ WF_vars(Listener(StopSends)) /\ WF_vars(Listener(StopCloses))

Spec == Init /\ [][Next]_vars /\ Fairness
=============================================================================
