--------------------------- MODULE FrameworkProofs ---------------------------
(***************************************************************************)
(* Proofs about the framework: the locks in Redis, the two servers, the    *)
(* configuration, and the listeners to a config map, for any number of     *)
(* clients, requests, config maps, keys, fields, files and listeners.      *)
(*                                                                         *)
(* Locks: a client that holds the lock is the value of the key             *)
(* (HoldersHave).  Only a client that finds no value, or its own, writes   *)
(* the key, and whatever removes a value first voids the hold of the       *)
(* client it names.  That a client is never told more often than the bound *)
(* allows (RoomToTake) is what types need.                                 *)
(*                                                                         *)
(* Servers: a topic that Run waits for is published only by the server     *)
(* that ends (WokenByTheEnd), and a gRPC server ends drained.              *)
(*                                                                         *)
(* Configuration: the events of a stream are in order and end with the     *)
(* present version (StreamsOK), what main reads is read while no stream    *)
(* is open (MainOK), so that no field is ahead of what its goroutine       *)
(* merges next (NotAhead), and a key that is not current is still to be    *)
(* merged (Merging).  A variant that is out of date is about to be set     *)
(* anew (VariantsOK).                                                      *)
(***************************************************************************)
EXTENDS MCFramework, TLAPS

-----------------------------------------------------------------------------
(* The locks *)

\* Who still tries has not been told too often.

RoomToTake == \A c \in Clients : step[c] \in {"try", "retry"} => depth[c] < MaxDepth

LockInv == RedisLockTypeOK /\ RoomToTake /\ HoldersHave

-----------------------------------------------------------------------------

\* The lock is free at first.
LEMMA LockInit == RedisLockInit => LockInv
BY RedisLockAssumption
   DEF RedisLockInit, LockInv, RedisLockTypeOK, RoomToTake, HoldersHave, Holds

\* Every step keeps the types of the lock.
LEMMA LockTypeStep ==
  ASSUME RedisLockTypeOK, RoomToTake, [RedisLockNext]_redisLockVars
  PROVE  RedisLockTypeOK' /\ RoomToTake'
<1> USE RedisLockAssumption DEF RedisLockTypeOK, RoomToTake, Goes
<1>1. CASE RunOut
  BY <1>1 DEF RunOut
<1>2. ASSUME NEW c \in Clients, CallLock(c) \/ Denied(c) \/ Retry(c) \/ GiveUpLock(c)
      PROVE  RedisLockTypeOK' /\ RoomToTake'
  BY <1>2 DEF CallLock, Denied, Retry, GiveUpLock
<1>3. ASSUME NEW c \in Clients, TakeLock(c)
      PROVE  RedisLockTypeOK' /\ RoomToTake'
  <2>1. holder' \in Clients \cup {Nobody} /\ step' \in [Clients -> {"work", "try", "retry", "unlock"}]
    BY <1>3 DEF TakeLock, Told
  <2>2. depth' \in [Clients -> 0 .. MaxDepth]
    BY <1>3 DEF TakeLock, Told
  <2>3. CASE void' = void
    BY <1>3, <2>1, <2>2, <2>3 DEF TakeLock, Told
  <2>4. CASE void' = [void EXCEPT ![c] = depth[c] > 0 /\ @]
    <3>1. (depth[c] > 0 /\ void[c]) \in BOOLEAN
      OBVIOUS
    <3>2. void' \in [Clients -> BOOLEAN]
      BY ONLY RedisLockTypeOK, <2>4, <3>1, Zenon DEF RedisLockTypeOK
    <3> QED
      BY <1>3, <2>1, <2>2, <3>2 DEF TakeLock, Told
  <2> QED
    BY <1>3, <2>3, <2>4 DEF TakeLock, Told
<1>4. ASSUME NEW c \in Clients, CallUnlock(c)
      PROVE  RedisLockTypeOK' /\ RoomToTake'
  BY <1>4 DEF CallUnlock
<1>5. ASSUME NEW c \in Clients, DropLock(c) \/ DropFails(c)
      PROVE  RedisLockTypeOK' /\ RoomToTake'
  BY <1>5 DEF DropLock, DropFails, Has
<1>6. CASE UNCHANGED redisLockVars
  BY <1>6 DEF redisLockVars
<1> QED
  BY <1>1, <1>2, <1>3, <1>4, <1>5, <1>6 DEF RedisLockNext, RedisLockStep

\* Every step keeps the holders owners of the key.
LEMMA HoldersHaveStep ==
  ASSUME LockInv, [RedisLockNext]_redisLockVars
  PROVE  HoldersHave'
<1> SUFFICES ASSUME NEW d \in Clients, Holds(d)'
             PROVE  holder' = d
  BY DEF HoldersHave
<1> USE RedisLockAssumption DEF LockInv, RedisLockTypeOK, HoldersHave, Holds, Goes
<1>1. CASE RunOut
  BY <1>1 DEF RunOut
<1>2. ASSUME NEW c \in Clients, CallLock(c) \/ Denied(c) \/ Retry(c) \/ GiveUpLock(c) \/ DropFails(c)
      PROVE  holder' = d
  BY <1>2 DEF CallLock, Denied, Retry, GiveUpLock, DropFails
<1>3. ASSUME NEW c \in Clients, TakeLock(c)
      PROVE  holder' = d
  \* Another holder would be the value of the key, and c would not be let in.
  <2>1. c # d => Holds(d)
    BY <1>3 DEF TakeLock, Told
  <2> QED
    BY <1>3, <2>1 DEF TakeLock, Free
<1>4. ASSUME NEW c \in Clients, CallUnlock(c)
      PROVE  holder' = d
  BY <1>4 DEF CallUnlock
<1>5. ASSUME NEW c \in Clients, DropLock(c)
      PROVE  holder' = d
  BY <1>5 DEF DropLock, Has
<1>6. CASE UNCHANGED redisLockVars
  BY <1>6 DEF redisLockVars
<1> QED
  BY <1>1, <1>2, <1>3, <1>4, <1>5, <1>6 DEF RedisLockNext, RedisLockStep

\* Types and ownership hold always.
LEMMA LockInvariant == RedisLockSpec => []LockInv
<1>1. LockInv /\ [RedisLockNext]_redisLockVars => LockInv'
  BY LockTypeStep, HoldersHaveStep DEF LockInv
<1> QED
  BY LockInit, <1>1, PTL DEF RedisLockSpec

-----------------------------------------------------------------------------
\* Every reachable state is well typed (redis.go:487-555, lock.go:49-91).
THEOREM LockTypeCorrect == RedisLockSpec => []RedisLockTypeOK
<1>1. LockInv => RedisLockTypeOK
  BY DEF LockInv
<1> QED
  BY <1>1, LockInvariant, PTL

\* A client that was told so, and whose lease lasts, has the lock, however
\* many answers are lost, with both kinds of lock on one key.
THEOREM HoldersAreOwners == RedisLockSpec => []HoldersHave
<1>1. LockInv => HoldersHave
  BY DEF LockInv
<1> QED
  BY <1>1, LockInvariant, PTL

\* No two clients hold the lock.
THEOREM LockExcludes == RedisLockSpec => []OneHolder
<1>1. HoldersHave => OneHolder
  BY DEF HoldersHave, OneHolder
<1> QED
  BY <1>1, HoldersAreOwners, PTL

\* An unlock never frees the lock of another client.
THEOREM UnlocksOwn == RedisLockSpec => UnlockOwnOnly
<1>1. ASSUME LockInv, RedisLockNext, NEW d \in Clients, step[d] = "unlock", step'[d] = "work"
      PROVE  holder' = holder \/ holder = d
  <2> USE RedisLockAssumption DEF LockInv, RedisLockTypeOK, Goes
  <2>1. ~RunOut
    BY <1>1 DEF RunOut
  <2>2. PICK c \in Clients : RedisLockStep(c)
    BY <1>1, <2>1 DEF RedisLockNext
  <2>3. ~CallLock(c) /\ ~TakeLock(c) /\ ~Denied(c) /\ ~Retry(c) /\ ~GiveUpLock(c) /\ ~CallUnlock(c)
    BY <1>1 DEF CallLock, TakeLock, Told, Denied, Retry, GiveUpLock, CallUnlock
  <2>4. CASE DropLock(c)
    BY <1>1, <2>4 DEF DropLock, Has
  <2>5. CASE DropFails(c)
    BY <2>5 DEF DropFails
  <2> QED
    BY <2>2, <2>3, <2>4, <2>5 DEF RedisLockStep
<1>2. LockInv /\ [RedisLockNext]_redisLockVars =>
        [\A c \in Clients : step[c] = "unlock" /\ step'[c] = "work"
           => holder' = holder \/ holder = c]_redisLockVars
  BY <1>1
<1> QED
  BY <1>2, LockInvariant, PTL DEF RedisLockSpec, UnlockOwnOnly

-----------------------------------------------------------------------------
\* Both locks implement a lease: a client enters the owners with TakeLock,
\* leaves them with CallUnlock, and the key follows with DropLock or RunOut.
THEOREM LocksAreLeases == RedisLockSpec => IsLease
<1> DEFINE believers == {c \in Clients : depth[c] > 0}
<1>1. RedisLockInit => L!Init
  BY DEF RedisLockInit, L!Init
<1>2. ASSUME LockInv, [RedisLockNext]_redisLockVars
      PROVE  [L!Next]_<<holder, believers>>
  <2> USE RedisLockAssumption DEF LockInv, RedisLockTypeOK, Goes
  <2>1. CASE RunOut
    BY <2>1 DEF RunOut, L!Next, L!Lapse
  <2>2. ASSUME NEW c \in Clients, CallLock(c) \/ Denied(c) \/ Retry(c) \/ GiveUpLock(c) \/ DropFails(c)
        PROVE  UNCHANGED <<holder, believers>>
    BY <2>2 DEF CallLock, Denied, Retry, GiveUpLock, DropFails
  <2>3. ASSUME NEW c \in Clients, TakeLock(c)
        PROVE  L!Acquire(c)
    <3>1. holder \in {Nobody, c} /\ holder' = c
      BY <2>3 DEF TakeLock, Free
    <3>2. believers' \in {believers, believers \cup {c}}
      <4>1. CASE depth' = depth
        BY <4>1
      <4>2. CASE depth' = [depth EXCEPT ![c] = @ + 1]
        <5>1. \A d \in Clients : depth'[d] > 0 <=> depth[d] > 0 \/ d = c
          BY <1>2, <4>2
        <5> QED
          BY <5>1
      <4> QED
        BY <2>3, <4>1, <4>2 DEF TakeLock, Told
    <3> QED
      BY <3>1, <3>2 DEF L!Acquire
  <2>4. ASSUME NEW c \in Clients, CallUnlock(c)
        PROVE  L!Release(c)
    <3>1. \A d \in Clients \ {c} : depth'[d] = depth[d]
      BY <2>4 DEF CallUnlock
    <3>2. believers' \in {believers, believers \ {c}}
      <4>1. depth[c] > 0
        BY <2>4 DEF CallUnlock
      <4>2. CASE depth'[c] > 0
        BY <3>1, <4>1, <4>2
      <4>3. CASE ~(depth'[c] > 0)
        BY <3>1, <4>3
      <4> QED
        BY <4>2, <4>3
    <3> QED
      BY <2>4, <3>2 DEF CallUnlock, L!Release
  <2>5. ASSUME NEW c \in Clients, DropLock(c)
        PROVE  L!Release(c)
    BY <2>5 DEF DropLock, Has, L!Release
  <2>6. CASE UNCHANGED redisLockVars
    BY <2>6 DEF redisLockVars
  <2>7. ASSUME NEW c \in Clients, RedisLockStep(c)
        PROVE  L!Acquire(c) \/ L!Release(c) \/ UNCHANGED <<holder, believers>>
    BY ONLY <2>2, <2>3, <2>4, <2>5, <2>7 DEF RedisLockStep
  <2>8. CASE RedisLockNext
    <3>1. (\E c \in Clients : RedisLockStep(c)) => L!Next \/ UNCHANGED <<holder, believers>>
      BY ONLY <2>7 DEF L!Next
    <3> QED
      BY ONLY <2>1, <2>8, <3>1 DEF RedisLockNext
  <2> QED
    BY ONLY <1>2, <2>6, <2>8
<1> QED
  BY <1>1, <1>2, LockInvariant, PTL DEF RedisLockSpec, IsLease, L!Spec

-----------------------------------------------------------------------------
(* The servers *)

\* Run has started what it has passed, and nothing before.
Started ==
  /\ main = "startWeb" => web = "off"
  /\ main \in {"startWeb", "startRpc"} => rpc = "off"

\* A topic that Run waits for is only published by the goroutine that ends, so
\* that Run goes past a wait only when its server is done.
WokenByTheEnd ==
  /\ "WebServerExited" \in calls => web = "done"
  /\ "RpcServerExited" \in calls => rpc = "done"
  /\ main \in {"rpcWait", "rpcBlocked", "returned"} => web = "done"
  /\ main = "returned" => rpc = "done"

\* A gRPC server that ended has no call left, for GracefulStop waits for them; it
\* ends with calls only when Serve failed, and then log.Fatal is on its way.
DrainedOrFatal ==
  /\ "log.fatal" \in topics
  /\ rpc \in {"closed", "done"} => requests["rpc"] = 0 \/ "log.fatal" \in calls \/ ~Alive

ServerInv == ServerTypeOK /\ Started /\ WokenByTheEnd /\ DrainedOrFatal

-----------------------------------------------------------------------------

\* The invariant holds before Run.
LEMMA InitServerInv == ServerInit => ServerInv
BY ServerLifecycleAssumption
   DEF ServerInit, ServerInv, ServerTypeOK, Started, WokenByTheEnd, DrainedOrFatal, Topics

\* Every step of Run, of the signal and of the servers keeps it.
LEMMA NextServerInv == ServerInv /\ [ServerNext]_serverVars => ServerInv'
<1> SUFFICES ASSUME ServerInv, [ServerNext]_serverVars
             PROVE  ServerInv'
  OBVIOUS
<1> USE ServerLifecycleAssumption
    DEF ServerInv, ServerTypeOK, Started, WokenByTheEnd, DrainedOrFatal, Topics,
        Alive, Heard, Publish, Dies
<1>1. CASE StartWeb
  BY <1>1 DEF StartWeb
<1>2. CASE StartRpc
  BY <1>2 DEF StartRpc
<1>3. CASE WaitForWeb \/ WaitForRpc
  BY <1>3 DEF WaitForWeb, WaitForRpc, Waits
<1>4. CASE WebEnded \/ RpcEnded
  BY <1>4 DEF WebEnded, RpcEnded, Woken
<1>5. CASE TakeSignal \/ PublishExit
  BY <1>5 DEF TakeSignal, PublishExit
<1>6. ASSUME NEW t \in DOMAIN Stops, Exit(t)
      PROVE  ServerInv'
  BY <1>6 DEF Exit, Stops
<1>7. CASE Fatal \/ ServeNothing \/ BusRace
  BY <1>7 DEF Fatal, ServeNothing, BusRace
<1>8. CASE Listen \/ WebCloses \/ WebExited
  BY <1>8 DEF Listen, WebCloses, WebExited
<1>9. CASE Serve \/ RpcBreaks
  BY <1>9 DEF Serve, RpcBreaks
<1>10. CASE RpcCloses \/ RpcExited
  BY <1>10 DEF RpcCloses, RpcExited, Drained
<1>11. ASSUME NEW s \in {"web", "rpc"}, Accept(s)
       PROVE  ServerInv'
  BY <1>11 DEF Accept, Serving
<1>12. ASSUME NEW s \in {"web", "rpc"}, Answer(s)
       PROVE  ServerInv'
  BY <1>12 DEF Answer
<1>13. CASE UNCHANGED serverVars
  BY <1>13 DEF serverVars
<1> QED
  BY <1>1, <1>2, <1>3, <1>4, <1>5, <1>6, <1>7, <1>8, <1>9, <1>10, <1>11, <1>12, <1>13
     DEF ServerNext, Run, Handle, WebServes, RpcServes

\* What a reader may rely on in every state of the process.
THEOREM ServerInvariant == ServerSpec => []ServerInv
BY InitServerInv, NextServerInv, PTL DEF ServerSpec

-----------------------------------------------------------------------------
\* Run returns only when both servers have stopped, and cuts off no call of an
\* RPC client unless log.Fatal is about to end the process (app.go:122-129).
THEOREM RunReturnsLast == ServerSpec => []ReturnedMeansDone
<1>1. ServerInv => ReturnedMeansDone
  BY DEF ServerInv, WokenByTheEnd, DrainedOrFatal, Alive, ReturnedMeansDone
<1> QED
  BY <1>1, ServerInvariant, PTL

-----------------------------------------------------------------------------
(* The configuration *)

\* The goroutine of a config map has taken an event and is at work on it.
Busy(m) == doing[m].at # "idle"

\* Main is inside a call of Watch that loads its config map.
Loading == Calling /\ doing[Main].at \in {"merge", "read", "write", "open"}

\* Main loads a config map only while nothing watches it, and adds keys only after.
MainOK ==
  /\ Call \in 1 .. Len(plan) + 2
  /\ doing[Main].at \in {"add", "merge", "open"} => Calling
  /\ Loading => monitor[MapOf(Main)] = <<>>
  /\ doing[Main].at # "idle" => Call <= Len(plan) + 1
  /\ doing[Main].at = "add" => monitor[MapOf(Main)] # <<>>

\* A goroutine works on a version that its config map has had.
GoroutinesOK ==
  /\ \A m \in Maps : doing[m].at \in {"idle", "merge", "read", "write"}
  /\ \A m \in Maps : Busy(m) => doing[m].version \in 1 .. version[m]

\* Without a watch there is no stream, no event and nothing to do.
Unwatched ==
  \A m \in Maps : monitor[m] = <<>> => m \notin open /\ stream[m] = <<>> /\ ~Busy(m)

Sorted(s) == \A i, j \in DOMAIN s : i <= j => s[i] <= s[j]

\* The events of a stream are in order, none is later than the config map, none
\* earlier than the one being merged; and the last that the goroutine will have seen
\* of a stream that lasts is the present version.
StreamsOK ==
  \A m \in Maps :
    /\ Sorted(stream[m])
    /\ \A i \in DOMAIN stream[m] :
         /\ stream[m][i] <= version[m]
         /\ Busy(m) => doing[m].version <= stream[m][i]
    /\ m \in open => IF stream[m] # <<>> THEN stream[m][Len(stream[m])] = version[m]
                     ELSE Busy(m) => doing[m].version = version[m]

\* No field is from a version that its goroutine has yet to come to.
NotAhead ==
  \A f \in Fields : config[f] # NoValue =>
    LET m == config[f].file[1] IN
      /\ config[f].version <= version[m]
      /\ \A i \in DOMAIN stream[m] : config[f].version <= stream[m][i]
      /\ Busy(m) => config[f].version <= doing[m].version

\* A configuration that is no map has no fields.
Nothing == shape # "map" => \A f \in Fields : config[f] = NoValue

\* The fields of a file are in the configuration, unless another file has them too.
IsCurrent(m, k) ==
  LET file == Content[m][k][version[m]] IN
    file.shape = "map" => \A f \in file.fields :
      /\ config[f] # NoValue
      /\ config[f].file = <<m, k>> => config[f].version = version[m]

\* What every call names is watched once a stream is open.
WatchedOK ==
  \A m \in Maps : monitor[m] # <<>> => Watched(m) \subseteq ToSet(monitor[m])

\* With no event left each key is current, or still to be merged by the goroutine.
Merging ==
  \A m \in open : ~wiped /\ stream[m] = <<>> =>
    \A k \in Watched(m) : IsCurrent(m, k) \/ (Busy(m) /\ k \in ToSet(doing[m].todo))

\* Nobody is about to set the variants anew.
NobodyReads == doing[Main].at # "merge" /\ \A a \in Actors : doing[a].at # "read"

\* A copy that is out of date is about to be written, or to be read again.
VariantsOK ==
  ~raced /\ NobodyReads =>
    /\ variant = config[Variant] \/ \E a \in Actors : doing[a].at = "write"
    /\ \A a \in Actors : doing[a].at = "write" => doing[a].value = config[Variant]

\* The inductive invariant.
ConfigInv ==
  /\ ConfigTypeOK /\ MainOK /\ GoroutinesOK /\ Unwatched /\ StreamsOK /\ NotAhead
  /\ Nothing /\ WatchedOK /\ Merging /\ VariantsOK
-----------------------------------------------------------------------------

\* What a field has after a merge.
New(file, v) == [file |-> file, version |-> v]

\* What the members of a sequence are, of its tail, and with one more at its end.
LEMMA SeqMembers ==
  ASSUME NEW S, NEW s \in Seq(S)
  PROVE  /\ ToSet(s) \subseteq S /\ (ToSet(s) = {} <=> s = <<>>)
         /\ \A e \in S : /\ Append(s, e) \in Seq(S) \ {<<>>}
                         /\ ToSet(s) \subseteq ToSet(Append(s, e))
         /\ s # <<>> => /\ Head(s) \in S /\ Tail(s) \in Seq(S) /\ Head(s) \in ToSet(s)
                       /\ ToSet(s) \subseteq {Head(s)} \cup ToSet(Tail(s))
<1>1. DOMAIN s = 1 .. Len(s) /\ Len(s) \in Nat /\ \A i \in 1 .. Len(s) : s[i] \in S
  OBVIOUS
<1>2. ToSet(s) \subseteq S
  BY <1>1 DEF ToSet
<1>3. ToSet(s) = {} <=> s = <<>>
  <2>1. CASE s = <<>>
    BY <2>1 DEF ToSet
  <2>2. CASE s # <<>>
    <3>1. 1 \in DOMAIN s
      BY <2>2
    <3> QED
      BY <2>2, <3>1 DEF ToSet
  <2> QED
    BY <2>1, <2>2
<1>4. ASSUME NEW e \in S
      PROVE  Append(s, e) \in Seq(S) \ {<<>>} /\ ToSet(s) \subseteq ToSet(Append(s, e))
  <2>1. Append(s, e) \in Seq(S) \ {<<>>}
    <3>1. Append(s, e) \in Seq(S) /\ Len(Append(s, e)) = Len(s) + 1
      OBVIOUS
    <3>2. Len(<<>>) = 0
      OBVIOUS
    <3> QED
      BY <1>1, <3>1, <3>2
  <2>2. \A i \in DOMAIN s : i \in DOMAIN Append(s, e) /\ Append(s, e)[i] = s[i]
    BY <1>1
  <2> QED
    BY <2>1, <2>2 DEF ToSet
<1>5. ASSUME s # <<>>
      PROVE  /\ Head(s) \in S /\ Tail(s) \in Seq(S) /\ Head(s) \in ToSet(s)
             /\ ToSet(s) \subseteq {Head(s)} \cup ToSet(Tail(s))
  <2>1. Head(s) = s[1] /\ 1 \in DOMAIN s /\ Tail(s) \in Seq(S)
    BY <1>1, <1>5
  <2>2. \A i \in DOMAIN s : i = 1 \/ (i - 1 \in DOMAIN Tail(s) /\ Tail(s)[i - 1] = s[i])
    BY <1>1, <1>5
  <2>3. \A i \in DOMAIN s : s[i] = Head(s) \/ s[i] \in ToSet(Tail(s))
    BY <2>1, <2>2 DEF ToSet
  <2> QED
    BY <1>1, <2>1, <2>3 DEF ToSet
<1> QED
  BY <1>2, <1>3, <1>4, <1>5

\* The file of a config map under a key, at a version that it has.
LEMMA ContentTyped ==
  ASSUME NEW m \in Maps, NEW k \in Keys, NEW v \in 1 .. MaxVersion[m]
  PROVE  /\ Content[m][k][v].shape \in Shapes /\ Content[m][k][v].fields \in SUBSET Fields
         /\ Content[m][k][v] \in [shape : Shapes, fields : SUBSET Fields]
         /\ Content[m][k][v].shape # "map" => Content[m][k][v].fields = {}
<1> DEFINE Files == [shape : Shapes, fields : SUBSET Fields]
<1>1. Content[m][k] \in Seq(Files)
  BY ConfigWatchAssumption
<1>2. v \in DOMAIN Content[m][k]
  BY <1>1, ConfigWatchAssumption DEF Versions
<1>3. Content[m][k][v] \in Files
  <2> HIDE DEF Files
  <2> QED
    BY <1>1, <1>2
<1> QED
  BY <1>2, <1>3, ConfigWatchAssumption

\* What a merge does to the configuration: a field keeps its value or gets the new
\* one, and loses it only when the merge loses the whole (Merge, variant.go:149-232).
LEMMA MergeFacts ==
  ASSUME ConfigTypeOK, Nothing,
         NEW file \in Maps \X Keys, NEW v \in Versions,
         NEW new \in [shape : Shapes \ {"absent"}, fields : SUBSET Fields],
         new.shape # "map" => new.fields = {},
         Merged(file, v, new)
  PROVE  /\ shape' \in {"none", "void", "map"} /\ wiped' \in BOOLEAN
         /\ config' \in [Fields -> Values] /\ Nothing' /\ (wiped => wiped')
         /\ \A f \in Fields : config'[f] \in {NoValue, config[f], New(file, v)}
         /\ ~wiped' => \A f \in Fields : config[f] # NoValue => config'[f] # NoValue
         /\ ~wiped' /\ new.shape = "map" => \A f \in new.fields : config'[f] = New(file, v)
         /\ new.shape = "unread" => config' = config
<1>1. New(file, v) \in Values /\ New(file, v) # NoValue
  BY ConfigWatchAssumption DEF Values, New
<1>2. config \in [Fields -> Values] /\ shape \in {"none", "void", "map"} /\ wiped \in BOOLEAN
  BY DEF ConfigTypeOK
<1>3. new.shape \in {"map", "void", "unread"} /\ new.fields \subseteq Fields
  BY DEF Shapes
<1>4. NoValue \in Values
  BY DEF Values
<1>5. CASE new.shape = "unread"
  BY <1>2, <1>4, <1>5 DEF Merged, Nothing
<1>6. CASE new.shape # "unread" /\ shape = "none"
  <2>1. /\ shape' = new.shape /\ wiped' = wiped
        /\ config' = [f \in Fields |-> IF f \in new.fields THEN New(file, v) ELSE NoValue]
    BY <1>6 DEF Merged, New
  <2> QED
    BY <1>1, <1>2, <1>3, <1>4, <1>6, <2>1 DEF Nothing
<1>7. CASE new.shape = "map" /\ shape = "map"
  <2>1. /\ shape' = shape /\ wiped' = wiped
        /\ config' = [f \in Fields |-> IF f \in new.fields THEN New(file, v) ELSE config[f]]
    BY <1>7 DEF Merged, Overrides, New
  <2> QED
    BY <1>1, <1>2, <1>3, <1>4, <1>7, <2>1 DEF Nothing
<1>8. CASE new.shape # "unread" /\ shape # "none" /\ ~(new.shape = "map" /\ shape = "map")
  <2>1. shape' = "none" /\ wiped' = TRUE /\ config' = [f \in Fields |-> NoValue]
    BY <1>8 DEF Merged
  <2> QED
    BY <1>2, <1>3, <1>4, <1>8, <2>1 DEF Nothing
<1> QED
  BY <1>5, <1>6, <1>7, <1>8

-----------------------------------------------------------------------------

\* Before the first call of Watch nothing is watched and nothing merged.
LEMMA InitConfigInv == ConfigInit => ConfigInv
<1> SUFFICES ASSUME ConfigInit
             PROVE  ConfigInv
  OBVIOUS
<1> USE DEF ConfigInit
<1>1. Main \in Actors /\ Maps \subseteq Actors /\ NoValue \in Values /\ Variant \in Fields
  BY ConfigWatchAssumption DEF Actors, Values
<1>2. \A a \in Actors : doing[a] = [at |-> "idle", call |-> 1, known |-> {}, todo |-> <<>>,
                                   version |-> 0, value |-> NoValue]
  OBVIOUS
<1>3. doing \in [Actors -> Doing]
  BY <1>1 DEF Doing
<1>4. ConfigTypeOK
  <2>1. version \in [Maps -> Versions] /\ \A m \in Maps : version[m] <= MaxVersion[m]
    BY ConfigWatchAssumption DEF Versions
  <2>2. stream \in [Maps -> Seq(Versions)] /\ monitor \in [Maps -> Seq(Keys)]
    OBVIOUS
  <2> QED
    BY <1>1, <1>3, <2>1, <2>2 DEF ConfigTypeOK
<1>5. MainOK
  <2>1. plan \in Seq([map : Maps, keys : Seq(Keys) \ {<<>>}])
    BY ConfigWatchAssumption
  <2>2. Call = 1 /\ Len(plan) \in Nat /\ doing[Main].at = "idle"
    BY <1>1, <1>2, <2>1 DEF Call
  <2> QED
    BY <2>2 DEF MainOK, Loading
<1>6. GoroutinesOK /\ Unwatched
  BY <1>1, <1>2 DEF GoroutinesOK, Unwatched, Busy
<1>7. StreamsOK /\ NotAhead /\ Nothing /\ WatchedOK /\ Merging
  BY DEF StreamsOK, NotAhead, Nothing, WatchedOK, Merging, Sorted
<1>8. VariantsOK
  BY <1>1, <1>2 DEF VariantsOK
<1> QED
  BY <1>4, <1>5, <1>6, <1>7, <1>8 DEF ConfigInv

-----------------------------------------------------------------------------

\* Where an actor can be.
Ats == {"idle", "add", "merge", "read", "write", "open"}

\* The types of what the actors are doing, field by field.
LEMMA DoingTyped ==
  ASSUME ConfigTypeOK
  PROVE  /\ Main \in Actors /\ Maps \subseteq Actors /\ Main \notin Maps /\ Variant \in Fields
         /\ \A a \in Actors :
              /\ doing[a].at \in Ats /\ doing[a].call \in Nat /\ doing[a].known \in SUBSET Keys
              /\ doing[a].todo \in Seq(Keys) /\ doing[a].version \in Nat
              /\ doing[a].value \in Values
         /\ plan \in Seq([map : Maps, keys : Seq(Keys) \ {<<>>}])
         /\ Call \in Nat /\ Len(plan) \in Nat
<1>1. Main \in Actors /\ Maps \subseteq Actors /\ Main \notin Maps /\ Variant \in Fields
  BY ConfigWatchAssumption DEF Actors
<1>2. \A a \in Actors : doing[a] \in Doing
  BY DEF ConfigTypeOK
<1>3. plan \in Seq([map : Maps, keys : Seq(Keys) \ {<<>>}])
  BY ConfigWatchAssumption DEF ConfigTypeOK
<1> QED
  BY <1>1, <1>2, <1>3 DEF Doing, Ats, Call

\* The call of Watch that main is in names a config map and at least one key.
LEMMA CallTyped ==
  ASSUME ConfigTypeOK, MainOK, Calling
  PROVE  /\ Call \in DOMAIN plan /\ MapOf(Main) \in Maps /\ plan[Call].map = MapOf(Main)
         /\ plan[Call].keys \in Seq(Keys) \ {<<>>}
<1> DEFINE Calls == [map : Maps, keys : Seq(Keys) \ {<<>>}]
<1>1. plan \in Seq(Calls) /\ Call \in 1 .. Len(plan)
  BY DoingTyped DEF Calling, Call, MainOK
<1>2. plan[Call] \in Calls
  <2> HIDE DEF Calls
  <2> QED
    BY <1>1
<1> QED
  BY <1>1, <1>2 DEF MapOf

\* A step in which no goroutine begins or ends its work, and only that.
LEMMA MovesKeep ==
  ASSUME ConfigInv, UNCHANGED <<plan, version, stream, open, monitor, shape, config, wiped>>,
         \A m \in Maps : /\ doing'[m].at \in {"idle", "merge", "read", "write"}
                         /\ doing'[m].at = "idle" <=> doing[m].at = "idle"
                         /\ doing'[m].version = doing[m].version
                         /\ doing'[m].todo = doing[m].todo
  PROVE  /\ GoroutinesOK' /\ Unwatched' /\ StreamsOK' /\ NotAhead' /\ Nothing' /\ WatchedOK'
         /\ Merging'
<1>1. \A m \in Maps : Busy(m)' = Busy(m)
  BY DEF Busy
<1>2. GoroutinesOK' /\ Unwatched' /\ Nothing' /\ WatchedOK'
  BY <1>1 DEF ConfigInv, GoroutinesOK, Unwatched, Nothing, WatchedOK, Watched
<1>3. StreamsOK'
  BY <1>1 DEF ConfigInv, StreamsOK, Sorted
<1>4. ASSUME NEW f \in Fields, config[f] # NoValue
      PROVE  config[f].file[1] \in Maps
  BY <1>4 DEF ConfigInv, ConfigTypeOK, Values
<1>5. NotAhead'
  BY <1>1, <1>4 DEF ConfigInv, NotAhead
<1>6. open \subseteq Maps
  BY DEF ConfigInv, ConfigTypeOK
<1>7. Merging'
  BY <1>1, <1>6 DEF ConfigInv, Merging, IsCurrent, Watched
<1> QED
  BY <1>2, <1>3, <1>5, <1>7

-----------------------------------------------------------------------------

\* Steps of main that change nothing but where it is.
LEMMA MainMoves ==
  ASSUME ConfigInv, StartWatch \/ AddedAll \/ LoadedAll \/ FinalVariants
  PROVE  ConfigInv'
<1> USE DEF At, Go, Returns
<1>1. ConfigTypeOK /\ MainOK /\ VariantsOK
  BY DEF ConfigInv
<1>2. /\ UNCHANGED <<plan, version, stream, open, monitor, shape, config, variant, raced, wiped, dead>>
      /\ doing[Main].at \in {"idle", "add", "merge"}
  BY DEF StartWatch, AddedAll, LoadedAll, FinalVariants
<1>3. /\ \A a \in Actors \ {Main} : doing'[a] = doing[a]
      /\ doing' \in [Actors -> Doing]
      /\ \/ /\ doing[Main].at = "idle" /\ doing'[Main].call = Call /\ Calling
            /\ doing'[Main].at = IF monitor[MapOf(Main)] = <<>> THEN "merge" ELSE "add"
         \/ doing[Main].at = "add" /\ doing'[Main].at = "idle" /\ doing'[Main].call = Call + 1
         \/ doing[Main].at = "merge" /\ doing'[Main].at = "read" /\ doing'[Main].call = Call
         \/ /\ doing[Main].at = "idle" /\ doing'[Main].at = "read"
            /\ doing'[Main].call = Call /\ Call = Len(plan) + 1
  <2>1. CASE StartWatch
    <3> DEFINE watched == ToSet(monitor[MapOf(Main)])
    <3>1. /\ MapOf(Main) \in Maps /\ plan[Call].keys \in Seq(Keys)
      BY <1>1, <2>1, CallTyped DEF StartWatch
    <3>2. monitor[MapOf(Main)] \in Seq(Keys)
      BY <1>1, <3>1 DEF ConfigTypeOK
    <3>3. watched \subseteq Keys /\ (watched = {} <=> monitor[MapOf(Main)] = <<>>)
      BY <3>2, SeqMembers
    <3>4. /\ doing' = [doing EXCEPT ![Main].at = IF watched = {} THEN "merge" ELSE "add",
                        ![Main].known = watched, ![Main].todo = plan[Call].keys]
          /\ doing[Main].at = "idle" /\ Calling
      BY <2>1 DEF StartWatch
    <3> HIDE DEF watched
    <3>5. doing[Main] \in Doing /\ doing \in [Actors -> Doing] /\ Main \in Actors
      BY <1>1, DoingTyped DEF ConfigTypeOK
    <3>6. doing' \in [Actors -> Doing]
      BY <3>1, <3>3, <3>4, <3>5 DEF Doing
    <3> QED
      BY <3>3, <3>4, <3>5, <3>6 DEF Call, Doing
  <2>2. CASE AddedAll
    <3>1. doing' = [doing EXCEPT ![Main].at = "idle", ![Main].call = @ + 1] /\ doing[Main].at = "add"
      BY <2>2 DEF AddedAll
    <3>2. doing[Main] \in Doing /\ doing \in [Actors -> Doing] /\ Main \in Actors
      BY <1>1, DoingTyped DEF ConfigTypeOK
    <3> QED
      BY <3>1, <3>2 DEF Call, Doing
  <2>3. CASE LoadedAll \/ FinalVariants
    <3>1. doing' = [doing EXCEPT ![Main].at = "read"]
          /\ (doing[Main].at = "merge" \/ (doing[Main].at = "idle" /\ Call = Len(plan) + 1))
      BY <2>3 DEF LoadedAll, FinalVariants
    <3>2. doing[Main] \in Doing /\ doing \in [Actors -> Doing] /\ Main \in Actors
      BY <1>1, DoingTyped DEF ConfigTypeOK
    <3> QED
      BY <3>1, <3>2 DEF Call, Doing
  <2> QED
    BY <2>1, <2>2, <2>3
<1>4. /\ GoroutinesOK' /\ Unwatched' /\ StreamsOK' /\ NotAhead' /\ Nothing' /\ WatchedOK'
      /\ Merging'
  BY <1>1, <1>2, <1>3, MovesKeep, DoingTyped DEF ConfigInv, GoroutinesOK
<1>5. ConfigTypeOK'
  BY <1>1, <1>2, <1>3 DEF ConfigTypeOK
<1>6. MainOK'
  <2>1. CASE doing'[Main].call = Call
    <3>1. Call' = Call /\ Calling' = Calling /\ MapOf(Main)' = MapOf(Main) /\ monitor' = monitor
      BY <1>2, <2>1 DEF Call, Calling, MapOf
    <3> QED
      BY <1>1, <1>2, <1>3, <3>1, DoingTyped DEF MainOK, Loading, Calling
  <2>2. CASE doing[Main].at = "add" /\ doing'[Main].at = "idle" /\ doing'[Main].call = Call + 1
    BY <1>1, <1>2, <2>2, DoingTyped DEF MainOK, Loading, Calling, Call
  <2> QED
    BY <1>3, <2>1, <2>2
<1>7. VariantsOK'
  BY <1>1, <1>2, <1>3, DoingTyped DEF VariantsOK, NobodyReads
<1> QED
  BY <1>4, <1>5, <1>6, <1>7 DEF ConfigInv

\* A second call of Watch for a config map adds its keys to those that are watched.
LEMMA AddKeyKeeps ==
  ASSUME ConfigInv, AddKey
  PROVE  ConfigInv'
<1> USE DEF At
<1> DEFINE M == MapOf(Main)
           k == Head(doing[Main].todo)
<1>1. ConfigTypeOK /\ MainOK /\ VariantsOK /\ Unwatched /\ WatchedOK
  BY DEF ConfigInv
<1>2. M \in Maps /\ doing[Main].todo \in Seq(Keys) /\ monitor \in [Maps -> Seq(Keys)]
  BY <1>1, CallTyped, DoingTyped DEF AddKey, MainOK, ConfigTypeOK
<1>3. k \in Keys /\ Tail(doing[Main].todo) \in Seq(Keys)
  BY <1>2 DEF AddKey
<1>4. /\ UNCHANGED <<plan, version, stream, open, shape, config, variant, raced, wiped, dead>>
      /\ monitor' = [monitor EXCEPT ![M] = IF IsNew(k) THEN Append(@, k) ELSE @]
      /\ doing' = [doing EXCEPT ![Main].todo = Tail(@)] /\ doing[Main].at = "add"
  BY DEF AddKey
<1>5. doing[Main] \in Doing /\ doing \in [Actors -> Doing]
  BY <1>1, DoingTyped DEF ConfigTypeOK
<1>6. /\ doing' \in [Actors -> Doing] /\ \A a \in Actors \ {Main} : doing'[a] = doing[a]
      /\ doing'[Main].at = "add" /\ doing'[Main].call = Call
  BY <1>3, <1>4, <1>5 DEF Call, Doing
<1> HIDE DEF M, k
<1>7. /\ monitor' \in [Maps -> Seq(Keys)]
      /\ \A m \in Maps : /\ ToSet(monitor[m]) \subseteq ToSet(monitor'[m])
                         /\ monitor'[m] = <<>> => monitor[m] = <<>>
                         /\ monitor'[m] # <<>> /\ monitor[m] = <<>> => m = M
  <2>1. \A m \in Maps : monitor'[m] \in {monitor[m], Append(monitor[m], k)}
                      /\ (m # M => monitor'[m] = monitor[m])
    BY <1>2, <1>4
  <2>2. \A m \in Maps : /\ Append(monitor[m], k) \in Seq(Keys) \ {<<>>}
                       /\ ToSet(monitor[m]) \subseteq ToSet(Append(monitor[m], k))
    BY <1>2, <1>3, SeqMembers
  <2>3. monitor' \in [Maps -> Seq(Keys)]
    BY <1>2, <1>3, <1>4
  <2> QED
    BY <2>1, <2>2, <2>3
<1>8. ConfigTypeOK'
  BY <1>1, <1>4, <1>6, <1>7 DEF ConfigTypeOK
<1>9. MainOK'
  <2>1. Call' = Call /\ Calling' = Calling /\ MapOf(Main)' = MapOf(Main)
    BY <1>4, <1>6 DEF Call, Calling, MapOf
  <2>2. Calling /\ monitor[M] # <<>>
    BY <1>1, <1>4 DEF MainOK, M
  <2> QED
    BY <1>1, <1>2, <1>4, <1>6, <1>7, <2>1, <2>2 DEF MainOK, Loading, M
<1>10. monitor[M] # <<>>
  BY <1>1, <1>4 DEF MainOK, M
<1>11. \A m \in Maps : doing'[m] = doing[m]
  BY <1>1, <1>6, DoingTyped
<1>12. GoroutinesOK' /\ StreamsOK' /\ NotAhead' /\ Nothing' /\ Merging'
  <2>1. UNCHANGED <<plan, version, stream, open, config, shape, wiped>>
    BY <1>4
  <2>2. GoroutinesOK' /\ Nothing'
    BY <1>11, <2>1 DEF ConfigInv, GoroutinesOK, Nothing, Busy
  <2>3. StreamsOK'
    BY <1>11, <2>1 DEF ConfigInv, StreamsOK, Sorted, Busy
  <2>4. ASSUME NEW f \in Fields, config[f] # NoValue
        PROVE  config[f].file[1] \in Maps
    BY <1>1, <2>4 DEF ConfigTypeOK, Values
  <2>5. NotAhead'
    BY <1>11, <2>1, <2>4 DEF ConfigInv, NotAhead, Busy
  <2>6. open \subseteq Maps
    BY <1>1 DEF ConfigTypeOK
  <2>7. Merging'
    BY <1>11, <2>1, <2>6 DEF ConfigInv, Merging, IsCurrent, Watched, Busy
  <2> QED
    BY <2>2, <2>3, <2>5, <2>7
<1>13. Unwatched' /\ WatchedOK'
  BY <1>1, <1>4, <1>7, <1>10, <1>11 DEF Unwatched, WatchedOK, Watched, Busy
<1>14. VariantsOK'
  BY <1>1, <1>4, <1>6, DoingTyped DEF VariantsOK, NobodyReads
<1> QED
  BY <1>8, <1>9, <1>12, <1>13, <1>14 DEF ConfigInv

\* What holds of a field after a merge: either it is as before, or new.
LEMMA OthersMerge ==
  ASSUME ConfigInv, UNCHANGED <<plan, version, stream, open, monitor, variant, raced, dead>>,
         NEW m \in Maps, NEW k \in Keys, NEW v \in 1 .. version[m],
         config' \in [Fields -> Values],
         \A f \in Fields : config'[f] \in {NoValue, config[f], New(<<m, k>>, v)},
         ~wiped' => \A f \in Fields : config[f] # NoValue => config'[f] # NoValue,
         wiped => wiped', Nothing',
         \A i \in DOMAIN stream[m] : v <= stream[m][i],
         m \in open /\ stream[m] = <<>> => v = version[m],
         ~Busy(m)' \/ doing'[m].version = v,
         \A n \in Maps : /\ Busy(n)' = Busy(n) /\ doing'[n].version = doing[n].version
                         /\ doing'[n].at \in {"idle", "merge", "read", "write"}
  PROVE  /\ GoroutinesOK' /\ Unwatched' /\ StreamsOK' /\ NotAhead' /\ WatchedOK'
         /\ ~wiped' => \A n \in open, j \in Keys :
                         stream[n] = <<>> /\ IsCurrent(n, j) => IsCurrent(n, j)'
<1> USE DEF ConfigInv
<1>1. GoroutinesOK' /\ Unwatched' /\ WatchedOK'
  BY DEF GoroutinesOK, Unwatched, WatchedOK, Watched
<1>2. StreamsOK'
  BY DEF StreamsOK, Sorted
<1>3. version \in [Maps -> Nat] /\ v \in Nat /\ open \subseteq Maps
  BY DEF ConfigTypeOK, Versions
<1>4. NotAhead'
  <2> SUFFICES ASSUME NEW f \in Fields, config'[f] # NoValue
               PROVE  LET n == config'[f].file[1] IN
                        /\ config'[f].version <= version[n]
                        /\ \A i \in DOMAIN stream[n] : config'[f].version <= stream[n][i]
                        /\ doing'[n].at # "idle" => config'[f].version <= doing'[n].version
    BY DEF NotAhead, Busy
  <2>1. CASE config'[f] = config[f]
    <3>1. config[f].file[1] \in Maps
      BY <2>1 DEF ConfigTypeOK, Values
    <3> QED
      BY <2>1, <3>1 DEF NotAhead, Busy
  <2>2. CASE config'[f] = New(<<m, k>>, v)
    <3>1. config'[f].file[1] = m /\ config'[f].version = v
      BY <2>2 DEF New
    <3>2. /\ v <= version[m] /\ (Busy(m)' => doing'[m].version = v)
          /\ \A i \in DOMAIN stream[m] : v <= stream[m][i]
      BY <1>3
    <3> HIDE DEF ConfigInv
    <3> QED
      BY <3>1, <3>2 DEF Busy
  <2> QED
    BY <2>1, <2>2
<1>5. ASSUME ~wiped', NEW n \in open, NEW j \in Keys, stream[n] = <<>>, IsCurrent(n, j)
      PROVE  IsCurrent(n, j)'
  <2> SUFFICES ASSUME Content[n][j][version[n]].shape = "map",
                      NEW f \in Content[n][j][version[n]].fields
               PROVE  /\ config'[f] # NoValue
                      /\ config'[f].file = <<n, j>> => config'[f].version = version[n]
    BY DEF IsCurrent
  <2>1. config[f] # NoValue /\ (config[f].file = <<n, j>> => config[f].version = version[n])
    BY <1>5 DEF IsCurrent
  <2>2. f \in Fields
    <3>1. n \in Maps /\ version[n] \in 1 .. MaxVersion[n]
      BY <1>3, ConfigWatchAssumption DEF ConfigTypeOK, Versions
    <3> QED
      BY <3>1, ContentTyped
  <2>3. CASE config'[f] = config[f]
    BY <2>1, <2>3
  <2>4. CASE config'[f] = New(<<m, k>>, v)
    <3>1. config'[f].file = <<m, k>> /\ config'[f].version = v
      BY <2>4 DEF New
    <3>2. <<n, j>> = <<m, k>> => n = m
      OBVIOUS
    <3> QED
      BY <1>5, <2>1, <2>2, <3>1, <3>2
  <2> QED
    BY <1>5, <2>1, <2>2, <2>3, <2>4
<1> QED
  BY <1>1, <1>2, <1>4, <1>5

\* No field goes back to an earlier version of the file it is from.
Forward ==
  \A f \in Fields : config[f] # NoValue /\ config'[f] # NoValue
     /\ config'[f].file = config[f].file => config'[f].version >= config[f].version

\* A merge of a file as late as what is there of that file takes nothing back.
LEMMA ForwardMerge ==
  ASSUME config \in [Fields -> Values], NEW file, NEW v \in Nat,
         \A f \in Fields : config'[f] \in {NoValue, config[f], New(file, v)},
         \A f \in Fields : config[f] # NoValue /\ config[f].file = file =>
           config[f].version <= v
  PROVE  Forward
<1> SUFFICES ASSUME NEW f \in Fields, config[f] # NoValue, config'[f] # NoValue,
                    config'[f].file = config[f].file
             PROVE  config'[f].version >= config[f].version
  BY DEF Forward
<1>1. config[f].version \in Nat
  BY DEF Values, Versions
<1>2. CASE config'[f] = config[f]
  BY <1>1, <1>2
<1>3. CASE config'[f] = New(file, v)
  <2>1. config'[f].file = file /\ config'[f].version = v
    BY <1>3 DEF New
  <2> QED
    BY <1>1, <2>1
<1> QED
  BY <1>2, <1>3

\* Main reads a key of a config map that nothing watches yet, at its present version.
LEMMA LoadKeyKeeps ==
  ASSUME ConfigInv, LoadKey
  PROVE  ConfigInv' /\ Forward
<1> DEFINE M == MapOf(Main)
           k == Head(doing[Main].todo)
           v == version[M]
           file == Content[M][k][v]
<1> USE DEF At
<1>1. ConfigTypeOK /\ MainOK /\ VariantsOK /\ Unwatched /\ Nothing /\ GoroutinesOK
  BY DEF ConfigInv
<1>2. M \in Maps /\ doing[Main].todo \in Seq(Keys) /\ Calling
  BY <1>1, CallTyped, DoingTyped DEF LoadKey, MainOK, ConfigTypeOK
<1>3. k \in Keys /\ Tail(doing[Main].todo) \in Seq(Keys)
  <2>1. doing[Main].todo # <<>>
    BY DEF LoadKey
  <2> QED
    BY <1>2, <2>1, SeqMembers
<1>4. v \in 1 .. MaxVersion[M] /\ v \in Versions /\ v \in 1 .. v
  BY <1>1, <1>2, ConfigWatchAssumption DEF ConfigTypeOK, Versions
<1>5. /\ file.shape \in Shapes /\ file.fields \in SUBSET Fields
      /\ file \in [shape : Shapes, fields : SUBSET Fields]
      /\ (file.shape # "map" => file.fields = {})
  BY <1>2, <1>3, <1>4, ContentTyped
<1>6. /\ UNCHANGED <<plan, version, stream, open, monitor, variant, raced, dead>>
      /\ doing' = [doing EXCEPT ![Main].todo = Tail(@)]
      /\ doing[Main].at = "merge"
      /\ \/ file.shape # "absent" /\ Merged(<<M, k>>, v, file)
         \/ file.shape = "absent" /\ Merged(<<M, k>>, v, [file EXCEPT !.shape = "void"])
         \/ UNCHANGED <<shape, config, wiped>>
  BY DEF LoadKey
<1>7. doing[Main] \in Doing /\ doing \in [Actors -> Doing]
  BY <1>1, DoingTyped DEF ConfigTypeOK
<1>8. /\ doing' \in [Actors -> Doing] /\ \A a \in Actors \ {Main} : doing'[a] = doing[a]
      /\ doing'[Main].at = "merge" /\ doing'[Main].call = Call
  BY <1>3, <1>6, <1>7 DEF Call, Doing
<1>9. <<M, k>> \in Maps \X Keys
  BY <1>2, <1>3
<1> HIDE DEF M, k, v, file
<1>10. /\ shape' \in {"none", "void", "map"} /\ wiped' \in BOOLEAN
       /\ config' \in [Fields -> Values] /\ Nothing' /\ (wiped => wiped')
       /\ \A f \in Fields : config'[f] \in {NoValue, config[f], New(<<M, k>>, v)}
       /\ ~wiped' => \A f \in Fields : config[f] # NoValue => config'[f] # NoValue
  <2>1. CASE file.shape # "absent" /\ Merged(<<M, k>>, v, file)
    <3>1. file \in [shape : Shapes \ {"absent"}, fields : SUBSET Fields]
      BY <1>5, <2>1
    <3> QED
      BY <1>1, <1>4, <1>5, <1>9, <2>1, <3>1, MergeFacts
  <2>2. CASE file.shape = "absent" /\ Merged(<<M, k>>, v, [file EXCEPT !.shape = "void"])
    <3> DEFINE new == [file EXCEPT !.shape = "void"]
    <3>1. /\ new \in [shape : Shapes \ {"absent"}, fields : SUBSET Fields] /\ new.fields = {}
      BY <1>5, <2>2 DEF Shapes
    <3>2. Merged(<<M, k>>, v, new)
      BY <2>2
    <3> HIDE DEF new
    <3> QED
      BY <1>1, <1>4, <1>9, <3>1, <3>2, MergeFacts
  <2>3. CASE UNCHANGED <<shape, config, wiped>>
    BY <1>1, <2>3 DEF ConfigTypeOK, Nothing
  <2> QED
    BY <1>6, <2>1, <2>2, <2>3
<1>11. \A m \in Maps : doing'[m] = doing[m] /\ Busy(m)' = Busy(m)
  BY <1>1, <1>8, DoingTyped DEF Busy
<1>12. monitor[M] = <<>> /\ M \notin open /\ stream[M] = <<>> /\ ~Busy(M)
  BY <1>1, <1>2, <1>6 DEF MainOK, Loading, M, Unwatched
<1>13. /\ GoroutinesOK' /\ Unwatched' /\ StreamsOK' /\ NotAhead' /\ WatchedOK'
       /\ ~wiped' => \A n \in open, j \in Keys :
                       stream[n] = <<>> /\ IsCurrent(n, j) => IsCurrent(n, j)'
  <2>1. v \in 1 .. version[M]
    BY <1>4 DEF v
  <2>2. \A m \in Maps : m = M => ~Busy(m)' /\ \A i \in DOMAIN stream[m] : v <= stream[m][i]
    BY <1>11, <1>12
  <2> QED
    BY <1>1, <1>2, <1>3, <1>6, <1>10, <1>11, <1>12, <2>1, <2>2, OthersMerge DEF GoroutinesOK
<1>14. ConfigTypeOK'
  BY <1>1, <1>6, <1>8, <1>10 DEF ConfigTypeOK
<1>15. MainOK'
  <2>1. Call' = Call /\ Calling' = Calling /\ MapOf(Main)' = MapOf(Main)
    BY <1>6, <1>8 DEF Call, Calling, MapOf
  <2> QED
    BY <1>1, <1>2, <1>6, <1>8, <1>12, <2>1 DEF MainOK, Loading, M
<1>16. Merging'
  <2>1. open \subseteq Maps /\ \A n \in open : Watched(n)' = Watched(n) /\ Watched(n) \subseteq Keys
    BY <1>1, <1>6 DEF ConfigTypeOK, Watched
  <2> QED
    BY <1>6, <1>10, <1>11, <1>13, <2>1 DEF ConfigInv, Merging
<1>17. VariantsOK'
  BY <1>8 DEF VariantsOK, NobodyReads
<1>18. Forward
  <2>1. \A f \in Fields : config[f] # NoValue /\ config[f].file = <<M, k>> =>
          config[f].version <= v
    BY <1>2, <1>3 DEF ConfigInv, NotAhead, v
  <2>2. config \in [Fields -> Values] /\ v \in Nat
    BY <1>1, <1>4 DEF ConfigTypeOK, Versions
  <2> QED
    BY <1>10, <2>1, <2>2, ForwardMerge
<1> QED
  BY <1>10, <1>13, <1>14, <1>15, <1>16, <1>17, <1>18 DEF ConfigInv

\* A goroutine merges a key at the version of the event that it has taken.
LEMMA MergeKeyKeeps ==
  ASSUME ConfigInv, NEW m \in Maps, MergeKey(m)
  PROVE  ConfigInv' /\ Forward
<1> DEFINE k == Head(doing[m].todo)
           v == doing[m].version
           file == Content[m][k][v]
           next == IF file.shape \in {"absent", "unread"} THEN "merge" ELSE "read"
<1> USE DEF At
<1>1. ConfigTypeOK /\ MainOK /\ VariantsOK /\ Unwatched /\ Nothing /\ GoroutinesOK
  BY DEF ConfigInv
<1>2. m \in Actors /\ m # Main /\ doing[m].todo \in Seq(Keys)
  BY <1>1, DoingTyped
<1>3. k \in Keys /\ Tail(doing[m].todo) \in Seq(Keys)
      /\ ToSet(doing[m].todo) \subseteq {k} \cup ToSet(Tail(doing[m].todo))
  <2>1. doing[m].todo # <<>>
    BY DEF MergeKey
  <2> QED
    BY <1>2, <2>1, SeqMembers
<1>4. doing[m].at = "merge" /\ Busy(m)
  BY DEF MergeKey, Busy
<1>5. v \in 1 .. version[m] /\ v \in 1 .. MaxVersion[m] /\ v \in Versions
  BY <1>1, <1>4, ConfigWatchAssumption DEF ConfigTypeOK, GoroutinesOK, Versions
<1>6. /\ file.shape \in Shapes /\ file.fields \in SUBSET Fields
      /\ file \in [shape : Shapes, fields : SUBSET Fields]
      /\ (file.shape # "map" => file.fields = {})
  BY <1>3, <1>5, ContentTyped
<1>7. /\ UNCHANGED <<plan, version, stream, open, monitor, variant, raced, dead>>
      /\ doing' = [doing EXCEPT ![m].todo = Tail(@), ![m].at = next]
      /\ IF file.shape = "absent" THEN UNCHANGED <<shape, config, wiped>>
         ELSE Merged(<<m, k>>, v, file)
  BY DEF MergeKey, AfterMerge
<1>8. next \in {"merge", "read"}
  OBVIOUS
<1>9. doing[m] \in Doing /\ doing \in [Actors -> Doing]
  BY <1>1, <1>2 DEF ConfigTypeOK
<1>10. <<m, k>> \in Maps \X Keys
  BY <1>3
<1> HIDE DEF k, v, file, next
<1>11. /\ doing' \in [Actors -> Doing] /\ \A a \in Actors \ {m} : doing'[a] = doing[a]
       /\ doing'[m].at = next /\ doing'[m].todo = Tail(doing[m].todo)
       /\ doing'[m].version = v
  BY <1>2, <1>3, <1>7, <1>8, <1>9 DEF Doing, v
<1>12. /\ shape' \in {"none", "void", "map"} /\ wiped' \in BOOLEAN
       /\ config' \in [Fields -> Values] /\ Nothing' /\ (wiped => wiped')
       /\ \A f \in Fields : config'[f] \in {NoValue, config[f], New(<<m, k>>, v)}
       /\ ~wiped' => \A f \in Fields : config[f] # NoValue => config'[f] # NoValue
       /\ ~wiped' /\ file.shape = "map" => \A f \in file.fields : config'[f] = New(<<m, k>>, v)
       /\ file.shape \in {"absent", "unread"} => config' = config
  <2>1. CASE file.shape # "absent"
    <3>1. file \in [shape : Shapes \ {"absent"}, fields : SUBSET Fields]
      BY <1>6, <2>1
    <3> QED
      BY <1>1, <1>5, <1>6, <1>7, <1>10, <2>1, <3>1, MergeFacts
  <2>2. CASE file.shape = "absent"
    BY <1>1, <1>7, <2>2 DEF ConfigTypeOK, Nothing
  <2> QED
    BY <2>1, <2>2
<1>13. \A n \in Maps : /\ Busy(n)' = Busy(n) /\ doing'[n].version = doing[n].version
                       /\ doing'[n].at \in {"idle", "merge", "read", "write"}
                       /\ n # m => doing'[n] = doing[n]
  BY <1>1, <1>4, <1>8, <1>11, DoingTyped DEF Busy, GoroutinesOK, v
<1>14. /\ GoroutinesOK' /\ Unwatched' /\ StreamsOK' /\ NotAhead' /\ WatchedOK'
       /\ ~wiped' => \A n \in open, j \in Keys :
                       stream[n] = <<>> /\ IsCurrent(n, j) => IsCurrent(n, j)'
  <2>1. /\ \A i \in DOMAIN stream[m] : v <= stream[m][i]
        /\ m \in open /\ stream[m] = <<>> => v = version[m]
    BY <1>4 DEF ConfigInv, StreamsOK, v
  <2> QED
    BY <1>3, <1>5, <1>7, <1>11, <1>12, <1>13, <2>1, OthersMerge
<1>15. ConfigTypeOK'
  BY <1>1, <1>7, <1>11, <1>12 DEF ConfigTypeOK
<1>16. MainOK'
  <2>1. doing'[Main] = doing[Main]
    BY <1>2, <1>11, DoingTyped, <1>1
  <2>2. Call' = Call /\ Calling' = Calling /\ MapOf(Main)' = MapOf(Main)
    BY <1>7, <2>1 DEF Call, Calling, MapOf
  <2> QED
    BY <1>1, <1>7, <2>1, <2>2 DEF MainOK, Loading
<1>17. Merging'
  <2> SUFFICES ASSUME NEW n \in open, ~wiped', stream[n] = <<>>, NEW j \in Watched(n)
               PROVE  IsCurrent(n, j)' \/ (Busy(n)' /\ j \in ToSet(doing'[n].todo))
    BY <1>7 DEF Merging, Watched
  <2>1. n \in Maps /\ j \in Keys
    BY <1>1 DEF ConfigTypeOK, Watched
  <2>2. IsCurrent(n, j) \/ (Busy(n) /\ j \in ToSet(doing[n].todo))
    BY <1>12 DEF ConfigInv, Merging
  <2>3. CASE IsCurrent(n, j)
    BY <1>14, <2>1, <2>3
  <2>4. CASE Busy(n) /\ j \in ToSet(doing[n].todo) /\ n # m
    BY <1>13, <2>1, <2>4
  <2>5. CASE n = m /\ j = k
    <3>1. v = version[m]
      BY <1>4, <2>5 DEF ConfigInv, StreamsOK, v
    <3>2. \A f \in Fields : config'[f] = New(<<m, k>>, v) =>
            config'[f] # NoValue /\ config'[f].version = version[m]
      <4>1. New(<<m, k>>, v) # NoValue
        BY <1>5, <1>10, ConfigWatchAssumption DEF New
      <4> QED
        BY <3>1, <4>1 DEF New
    <3>3. ~wiped' /\ file = Content[n][j][version[n]] /\ version' = version
      BY <1>7, <2>5, <3>1 DEF file
    <3>4. file.shape = "map" => \A f \in file.fields :
            config'[f] # NoValue /\ config'[f].version = version[n]
      BY <1>6, <1>12, <2>5, <3>2, <3>3
    <3> QED
      BY <3>3, <3>4 DEF IsCurrent
  <2>6. CASE n = m /\ j \in ToSet(doing[m].todo) /\ j # k
    BY <1>3, <1>4, <1>11, <1>13, <2>1, <2>6
  <2> QED
    BY <2>2, <2>3, <2>4, <2>5, <2>6
<1>18. VariantsOK'
  <2>1. CASE next = "read"
    BY <1>2, <1>11, <2>1 DEF VariantsOK, NobodyReads
  <2>2. CASE next = "merge" /\ file.shape \in {"absent", "unread"}
    BY <1>1, <1>2, <1>4, <1>7, <1>11, <1>12, <2>2, DoingTyped DEF VariantsOK, NobodyReads
  <2> QED
    BY <2>1, <2>2 DEF next
<1>19. Forward
  <2>1. \A f \in Fields : config[f] # NoValue /\ config[f].file = <<m, k>> =>
          config[f].version <= v
    BY <1>3, <1>4 DEF ConfigInv, NotAhead, v
  <2>2. config \in [Fields -> Values] /\ v \in Nat
    BY <1>1, <1>5 DEF ConfigTypeOK, Versions
  <2> QED
    BY <1>12, <2>1, <2>2, ForwardMerge
<1> QED
  BY <1>12, <1>14, <1>15, <1>16, <1>17, <1>18, <1>19 DEF ConfigInv

-----------------------------------------------------------------------------

\* The stream begins with the present version, which is no earlier than what main
\* has read, and every key that is watched is still to be merged from it.
LEMMA OpenStreamKeeps ==
  ASSUME ConfigInv, OpenStream
  PROVE  ConfigInv'
<1> DEFINE M == MapOf(Main)
<1> USE DEF At, Returns
<1>1. ConfigTypeOK /\ MainOK /\ VariantsOK /\ Unwatched /\ GoroutinesOK
  BY DEF ConfigInv
<1>2. M \in Maps /\ plan[Call].keys \in Seq(Keys) \ {<<>>} /\ Call \in DOMAIN plan /\ Calling
      /\ plan[Call].map = M
  BY <1>1, CallTyped DEF OpenStream
<1>3. /\ UNCHANGED <<plan, version, shape, config, variant, raced, wiped, dead>>
      /\ doing' = [doing EXCEPT ![Main].at = "idle", ![Main].call = @ + 1]
      /\ doing[Main].at = "open"
      /\ \/ UNCHANGED <<stream, open, monitor>>
         \/ /\ stream' = [stream EXCEPT ![M] = <<version[M]>>] /\ open' = open \cup {M}
            /\ monitor' = [monitor EXCEPT ![M] = plan[Call].keys]
  BY DEF OpenStream
<1>4. doing[Main] \in Doing /\ doing \in [Actors -> Doing] /\ Main \in Actors
  BY <1>1, DoingTyped DEF ConfigTypeOK
<1>5. /\ doing' \in [Actors -> Doing] /\ \A a \in Actors \ {Main} : doing'[a] = doing[a]
      /\ doing'[Main].at = "idle" /\ doing'[Main].call = Call + 1
  <2>1. doing' = [doing EXCEPT ![Main].at = "idle", ![Main].call = @ + 1]
    BY <1>3
  <2>2. doing[Main].call + 1 \in Nat
    BY <1>4 DEF Doing
  <2>3. doing' \in [Actors -> Doing]
    BY <1>4, <2>1, <2>2 DEF Doing
  <2>4. \A a \in Actors \ {Main} : doing'[a] = doing[a]
    BY <1>4, <2>1
  <2>5. doing'[Main].at = "idle" /\ doing'[Main].call = doing[Main].call + 1
    BY <1>4, <2>1 DEF Doing
  <2> QED
    BY <2>3, <2>4, <2>5 DEF Call
<1>6. monitor[M] = <<>> /\ ~Busy(M)
  BY <1>1, <1>2, <1>3 DEF MainOK, Loading, Unwatched
<1>7. \A m \in Maps : doing'[m] = doing[m] /\ Busy(m)' = Busy(m)
  BY <1>1, <1>5, DoingTyped DEF Busy
<1>8. version[M] \in Versions
  BY <1>1, <1>2 DEF ConfigTypeOK
<1> HIDE DEF M
<1>9. ConfigTypeOK'
  <2>1. CASE UNCHANGED <<stream, open, monitor>>
    BY <1>1, <1>3, <1>5, <2>1 DEF ConfigTypeOK
  <2>2. CASE /\ stream' = [stream EXCEPT ![M] = <<version[M]>>] /\ open' = open \cup {M}
             /\ monitor' = [monitor EXCEPT ![M] = plan[Call].keys]
    <3>1. stream' \in [Maps -> Seq(Versions)] /\ monitor' \in [Maps -> Seq(Keys)]
      BY <1>1, <1>2, <1>8, <2>2 DEF ConfigTypeOK
    <3> QED
      BY <1>1, <1>2, <1>3, <1>5, <2>2, <3>1 DEF ConfigTypeOK
  <2> QED
    BY <1>3, <2>1, <2>2
<1>10. MainOK'
  <2>1. Call' = Call + 1 /\ plan' = plan /\ Call \in Nat /\ Len(plan) \in Nat
    BY <1>1, <1>3, <1>5, DoingTyped DEF Call
  <2> QED
    BY <1>1, <1>2, <1>5, <2>1 DEF MainOK, Loading, Calling
<1>11. VariantsOK'
  BY <1>1, <1>3, <1>5, DoingTyped DEF VariantsOK, NobodyReads
<1>12. CASE UNCHANGED <<stream, open, monitor>>
  <2>1. \A m \in Maps : /\ doing'[m].at \in {"idle", "merge", "read", "write"}
                        /\ doing'[m].at = "idle" <=> doing[m].at = "idle"
                        /\ doing'[m].version = doing[m].version
                        /\ doing'[m].todo = doing[m].todo
    BY <1>1, <1>7 DEF GoroutinesOK
  <2>2. /\ GoroutinesOK' /\ Unwatched' /\ StreamsOK' /\ NotAhead' /\ Nothing' /\ WatchedOK'
        /\ Merging'
    BY <1>3, <1>12, <2>1, MovesKeep
  <2> QED
    BY <1>9, <1>10, <1>11, <2>2 DEF ConfigInv
<1>13. CASE /\ stream' = [stream EXCEPT ![M] = <<version[M]>>] /\ open' = open \cup {M}
            /\ monitor' = [monitor EXCEPT ![M] = plan[Call].keys]
  <2>1. /\ stream'[M] = <<version[M]>> /\ monitor'[M] = plan[Call].keys
        /\ \A m \in Maps \ {M} : stream'[m] = stream[m] /\ monitor'[m] = monitor[m]
                                 /\ (m \in open' <=> m \in open)
    BY <1>1, <1>2, <1>13 DEF ConfigTypeOK
  <2>2. /\ DOMAIN <<version[M]>> = {1} /\ <<version[M]>>[1] = version[M]
        /\ Len(<<version[M]>>) = 1 /\ <<version[M]>> # <<>>
    OBVIOUS
  <2>3. GoroutinesOK' /\ Unwatched' /\ Nothing'
    BY <1>2, <1>3, <1>7, <2>1 DEF ConfigInv, GoroutinesOK, Unwatched, Nothing, Busy
  <2>4. StreamsOK'
    <3> SUFFICES ASSUME NEW m \in Maps
                 PROVE  /\ Sorted(stream'[m])
                        /\ \A i \in DOMAIN stream'[m] :
                             /\ stream'[m][i] <= version[m]
                             /\ Busy(m)' => doing'[m].version <= stream'[m][i]
                        /\ m \in open' => IF stream'[m] # <<>>
                                          THEN stream'[m][Len(stream'[m])] = version[m]
                                          ELSE Busy(m)' => doing'[m].version = version[m]
      BY <1>3 DEF StreamsOK, Sorted
    <3>1. CASE m = M
      BY <1>6, <1>7, <1>8, <2>1, <2>2, <3>1 DEF Sorted, Versions
    <3>2. CASE m # M
      BY <1>7, <2>1, <3>2 DEF ConfigInv, StreamsOK
    <3> QED
      BY <3>1, <3>2
  <2>5. NotAhead'
    <3> SUFFICES ASSUME NEW f \in Fields, config[f] # NoValue, NEW m \in Maps,
                        config[f].file[1] = m
                 PROVE  /\ config[f].version <= version[m]
                        /\ \A i \in DOMAIN stream'[m] : config[f].version <= stream'[m][i]
                        /\ Busy(m)' => config[f].version <= doing'[m].version
      <4>1. \A f \in Fields : config[f] # NoValue => config[f].file[1] \in Maps
        BY <1>1 DEF ConfigTypeOK, Values
      <4> QED
        BY <1>3, <4>1 DEF NotAhead, Busy
    <3>1. CASE m = M
      BY <1>6, <1>7, <2>1, <2>2, <3>1 DEF ConfigInv, NotAhead
    <3>2. CASE m # M
      BY <1>7, <2>1, <3>2 DEF ConfigInv, NotAhead
    <3> QED
      BY <3>1, <3>2
  <2>6. WatchedOK'
    <3>1. Watched(M) \subseteq ToSet(plan[Call].keys)
      BY <1>2 DEF Watched
    <3> QED
      BY <1>3, <2>1, <3>1 DEF ConfigInv, WatchedOK, Watched
  <2>7. Merging'
    <3>1. \A m \in open' : stream'[m] = <<>> => m \in open /\ m \in Maps /\ stream[m] = <<>>
      BY <1>1, <1>13, <2>1, <2>2 DEF ConfigTypeOK
    <3> QED
      BY <1>3, <1>7, <3>1 DEF ConfigInv, Merging, IsCurrent, Watched
  <2> QED
    BY <1>9, <1>10, <1>11, <2>3, <2>4, <2>5, <2>6, <2>7 DEF ConfigInv
<1> QED
  BY <1>3, <1>12, <1>13

-----------------------------------------------------------------------------

\* Between the reading and the writing of the variant nobody else may read or
\* write it, or the two race.
LEMMA VariantSteps ==
  ASSUME ConfigInv, NEW a \in Actors, ReadVariant(a) \/ WriteVariant(a)
  PROVE  ConfigInv'
<1> USE DEF At, Go, Returns
<1>1. ConfigTypeOK /\ MainOK /\ VariantsOK /\ GoroutinesOK
  BY DEF ConfigInv
<1>2. doing[a] \in Doing /\ doing \in [Actors -> Doing] /\ config[Variant] \in Values
  BY <1>1, DoingTyped DEF ConfigTypeOK
<1>3. /\ UNCHANGED <<plan, version, stream, open, monitor, shape, config, wiped, dead>>
      /\ raced' = (raced \/ InVariants # {a})
  BY DEF ReadVariant, WriteVariant
<1>4. /\ doing' \in [Actors -> Doing] /\ \A b \in Actors \ {a} : doing'[b] = doing[b]
      /\ doing'[a].todo = doing[a].todo /\ doing'[a].version = doing[a].version
      /\ \/ /\ doing[a].at = "read" /\ doing'[a].at = "write" /\ variant' = variant
            /\ doing'[a].value = config[Variant] /\ doing'[a].call = doing[a].call
         \/ /\ doing[a].at = "write" /\ variant' = doing[a].value
            /\ \/ a # Main /\ doing'[a].at = "merge"
               \/ /\ a = Main /\ Calling /\ doing'[a].at = "open"
                  /\ doing'[a].call = doing[a].call
               \/ /\ a = Main /\ ~Calling /\ doing'[a].at = "idle"
                  /\ doing'[a].call = doing[a].call + 1
  <2>1. CASE ReadVariant(a)
    <3>1. doing' = [doing EXCEPT ![a].at = "write", ![a].value = config[Variant]]
          /\ doing[a].at = "read" /\ variant' = variant
      BY <2>1 DEF ReadVariant
    <3> QED
      BY <1>2, <3>1 DEF Doing
  <2>2. CASE WriteVariant(a)
    <3>1. /\ doing[a].at = "write" /\ variant' = doing[a].value
          /\ \/ a # Main /\ doing' = [doing EXCEPT ![a].at = "merge"]
             \/ a = Main /\ Calling /\ doing' = [doing EXCEPT ![a].at = "open"]
             \/ /\ a = Main /\ ~Calling
                /\ doing' = [doing EXCEPT ![a].at = "idle", ![a].call = @ + 1]
      BY <2>2 DEF WriteVariant
    <3>2. CASE a # Main /\ doing' = [doing EXCEPT ![a].at = "merge"]
      BY <1>2, <3>1, <3>2 DEF Doing
    <3>3. CASE a = Main /\ Calling /\ doing' = [doing EXCEPT ![a].at = "open"]
      BY <1>2, <3>1, <3>3 DEF Doing
    <3>4. CASE /\ a = Main /\ ~Calling
               /\ doing' = [doing EXCEPT ![a].at = "idle", ![a].call = @ + 1]
      <4>1. doing[a].call + 1 \in Nat
        BY <1>2 DEF Doing
      <4>2. doing' \in [Actors -> Doing]
        BY <1>2, <3>4, <4>1 DEF Doing
      <4>3. /\ \A b \in Actors \ {a} : doing'[b] = doing[b]
            /\ doing'[a].todo = doing[a].todo /\ doing'[a].version = doing[a].version
            /\ doing'[a].at = "idle" /\ doing'[a].call = doing[a].call + 1
        BY <1>2, <3>4 DEF Doing
      <4> QED
        BY <3>1, <3>4, <4>2, <4>3
    <3> QED
      BY <3>1, <3>2, <3>3, <3>4
  <2> QED
    BY <2>1, <2>2
<1>5. /\ GoroutinesOK' /\ Unwatched' /\ StreamsOK' /\ NotAhead' /\ Nothing' /\ WatchedOK'
      /\ Merging'
  <2>1. \A m \in Maps : /\ doing'[m].at \in {"idle", "merge", "read", "write"}
                        /\ doing'[m].at = "idle" <=> doing[m].at = "idle"
                        /\ doing'[m].version = doing[m].version
                        /\ doing'[m].todo = doing[m].todo
    BY <1>1, <1>4, DoingTyped DEF GoroutinesOK
  <2> QED
    BY <1>3, <2>1, MovesKeep
<1>6. ConfigTypeOK'
  <2>1. variant' \in Values
    BY <1>1, <1>2, <1>4 DEF ConfigTypeOK, Doing
  <2>2. raced' \in BOOLEAN
    BY <1>1, <1>3 DEF ConfigTypeOK
  <2> QED
    BY <1>1, <1>3, <1>4, <2>1, <2>2 DEF ConfigTypeOK
<1>7. MainOK'
  <2>1. CASE doing'[Main].call = Call
    <3>1. Call' = Call /\ Calling' = Calling /\ MapOf(Main)' = MapOf(Main)
      BY <1>3, <2>1 DEF Call, Calling, MapOf
    <3> QED
      BY <1>1, <1>3, <1>4, <3>1, DoingTyped DEF MainOK, Loading
  <2>2. CASE a = Main /\ ~Calling /\ doing'[a].at = "idle" /\ doing'[a].call = doing[a].call + 1
    <3>1. doing'[Main].at = "idle" /\ Call' = Call + 1 /\ Len(plan)' = Len(plan) /\ ~Calling
      BY <1>3, <2>2 DEF Call
    <3>2. Call <= Len(plan) + 1
      BY <1>1, <1>4, <2>2, DoingTyped DEF MainOK, Loading
    <3> QED
      BY <1>1, <3>1, <3>2, DoingTyped DEF MainOK, Loading
  <2> QED
    BY <1>1, <1>4, <2>1, <2>2, DoingTyped DEF Call
<1>8. VariantsOK'
  <2> SUFFICES ASSUME ~raced', NobodyReads'
               PROVE  /\ variant' = config[Variant] \/ \E b \in Actors : doing'[b].at = "write"
                      /\ \A b \in Actors : doing'[b].at = "write" => doing'[b].value = config[Variant]
    BY <1>3 DEF VariantsOK
  <2>1. ~raced /\ \A b \in Actors \ {a} : doing[b].at \notin {"read", "write"}
    BY <1>3 DEF InVariants
  <2>2. CASE doing[a].at = "read"
    BY <1>4, <2>1, <2>2
  <2>3. CASE doing[a].at = "write"
    <3>1. NobodyReads
      BY <1>1, <1>4, <2>1, <2>3, DoingTyped DEF NobodyReads
    <3>2. variant' = config[Variant]
      BY <1>1, <1>4, <2>1, <2>3, <3>1 DEF VariantsOK
    <3> QED
      BY <1>4, <2>1, <2>3, <3>2
  <2> QED
    BY <1>4, <2>2, <2>3
<1> QED
  BY <1>5, <1>6, <1>7, <1>8 DEF ConfigInv

-----------------------------------------------------------------------------

\* A goroutine takes the first event of its stream, and all its keys are to be merged.
LEMMA TakeEventKeeps ==
  ASSUME ConfigInv, NEW m \in Maps, TakeEvent(m)
  PROVE  ConfigInv'
<1> USE DEF At
<1>1. ConfigTypeOK /\ MainOK /\ VariantsOK /\ GoroutinesOK /\ StreamsOK /\ NotAhead
  BY DEF ConfigInv
<1>2. m \in Actors /\ m # Main /\ doing[m] \in Doing /\ doing \in [Actors -> Doing]
      /\ monitor[m] \in Seq(Keys) /\ stream[m] \in Seq(Versions) /\ stream \in [Maps -> Seq(Versions)]
  BY <1>1, DoingTyped DEF ConfigTypeOK
<1>3. /\ UNCHANGED <<plan, version, open, monitor, shape, config, variant, raced, wiped, dead>>
      /\ doing' = [doing EXCEPT ![m].at = "merge", ![m].todo = monitor[m],
                                ![m].version = Head(stream[m])]
      /\ stream' = [stream EXCEPT ![m] = Tail(@)] /\ doing[m].at = "idle" /\ stream[m] # <<>>
  BY DEF TakeEvent
<1> DEFINE v == Head(stream[m])
           s == stream[m]
<1>4. /\ v \in Versions /\ v = s[1] /\ Tail(s) \in Seq(Versions)
      /\ 1 \in DOMAIN s /\ Len(s) \in Nat /\ Len(s) >= 1
      /\ \A i \in DOMAIN Tail(s) : i \in Nat /\ i + 1 \in DOMAIN s /\ Tail(s)[i] = s[i + 1]
      /\ Len(Tail(s)) = Len(s) - 1 /\ DOMAIN s = 1 .. Len(s)
      /\ Tail(s) = <<>> => Len(s) = 1
  <2>1. s \in Seq(Versions) /\ s # <<>>
    BY <1>2, <1>3
  <2> HIDE DEF s
  <2>2. DOMAIN s = 1 .. Len(s) /\ Len(s) \in Nat /\ Len(s) # 0 /\ 1 \in DOMAIN s
    BY <2>1
  <2>3. Tail(s) \in Seq(Versions) /\ Len(Tail(s)) = Len(s) - 1 /\ Head(s) = s[1]
    BY <2>1, <2>2
  <2>4. \A i \in 1 .. Len(s) - 1 : Tail(s)[i] = s[i + 1]
    BY <2>1, <2>2
  <2>5. DOMAIN Tail(s) = 1 .. Len(s) - 1
    BY <2>2, <2>3
  <2>6. Tail(s) = <<>> => Len(s) = 1
    BY <2>2, <2>3
  <2>7. Head(s) \in Versions
    BY <2>1, <2>2, <2>3
  <2>8. \A i \in 1 .. Len(s) - 1 : i \in Nat /\ i + 1 \in DOMAIN s
    BY <2>2
  <2> QED
    BY <2>2, <2>3, <2>4, <2>5, <2>6, <2>7, <2>8 DEF s
<1>5. v <= version[m] /\ v \in Nat /\ \A i \in DOMAIN Tail(s) : v <= Tail(s)[i]
  <2>1. Sorted(s) /\ s[1] <= version[m]
    BY <1>1, <1>4 DEF StreamsOK
  <2>2. v \in Nat
    BY <1>4 DEF Versions
  <2>3. \A i \in DOMAIN s : v <= s[i]
    <3>1. \A i \in DOMAIN s : 1 <= i
      BY <1>4
    <3> QED
      BY <1>4, <2>1, <3>1 DEF Sorted
  <2> QED
    BY <1>4, <2>1, <2>2, <2>3
<1>6. /\ doing' \in [Actors -> Doing] /\ \A a \in Actors \ {m} : doing'[a] = doing[a]
      /\ doing'[m].at = "merge" /\ doing'[m].todo = monitor[m] /\ doing'[m].version = v
  BY <1>2, <1>3, <1>5 DEF Doing
<1>7. /\ \A n \in Maps \ {m} : stream'[n] = stream[n] /\ doing'[n] = doing[n]
      /\ stream'[m] = Tail(s)
  BY <1>2, <1>3, <1>6, <1>1, DoingTyped
<1>8. monitor[m] # <<>>
  BY <1>3 DEF ConfigInv, Unwatched
<1> HIDE DEF v, s
<1>9. ConfigTypeOK'
  <2>1. stream' \in [Maps -> Seq(Versions)]
    BY <1>2, <1>3, <1>4 DEF s
  <2> QED
    BY <1>1, <1>3, <1>6, <2>1 DEF ConfigTypeOK
<1>10. MainOK'
  <2>1. doing'[Main] = doing[Main]
    BY <1>1, <1>2, <1>6, DoingTyped
  <2>2. Call' = Call /\ Calling' = Calling /\ MapOf(Main)' = MapOf(Main)
    BY <1>3, <2>1 DEF Call, Calling, MapOf
  <2> QED
    BY <1>1, <1>3, <2>1, <2>2 DEF MainOK, Loading
<1>11. VariantsOK'
  BY <1>1, <1>2, <1>3, <1>6, DoingTyped DEF VariantsOK, NobodyReads
<1>12. GoroutinesOK' /\ Unwatched' /\ Nothing' /\ WatchedOK'
  <2>1. v \in 1 .. version[m]
    BY <1>1, <1>4, <1>5 DEF ConfigTypeOK, Versions
  <2> QED
    BY <1>1, <1>3, <1>6, <1>7, <1>8, <2>1
       DEF ConfigInv, GoroutinesOK, Unwatched, Nothing, WatchedOK, Watched, Busy
<1>13. StreamsOK'
  <2> SUFFICES ASSUME NEW n \in Maps
               PROVE  /\ Sorted(stream'[n])
                      /\ \A i \in DOMAIN stream'[n] :
                           /\ stream'[n][i] <= version[n]
                           /\ Busy(n)' => doing'[n].version <= stream'[n][i]
                      /\ n \in open => IF stream'[n] # <<>>
                                       THEN stream'[n][Len(stream'[n])] = version[n]
                                       ELSE Busy(n)' => doing'[n].version = version[n]
    BY <1>3 DEF StreamsOK, Sorted
  <2>1. CASE n # m
    BY <1>1, <1>7, <2>1 DEF StreamsOK, Busy
  <2>2. CASE n = m
    <3>1. Sorted(Tail(s))
      BY <1>1, <1>4 DEF StreamsOK, Sorted, s
    <3>2. \A i \in DOMAIN Tail(s) : Tail(s)[i] <= version[m] /\ v <= Tail(s)[i]
      BY <1>1, <1>4, <1>5 DEF StreamsOK, s
    <3>3. ASSUME m \in open
          PROVE  IF Tail(s) # <<>> THEN Tail(s)[Len(Tail(s))] = version[m] ELSE v = version[m]
      <4>1. s[Len(s)] = version[m]
        BY <1>1, <1>3, <3>3 DEF StreamsOK, s
      <4>2. CASE Tail(s) = <<>>
        BY <1>4, <4>1, <4>2
      <4>3. CASE Tail(s) # <<>>
        <5>1. Len(Tail(s)) \in DOMAIN Tail(s)
          BY <1>4, <4>3
        <5> QED
          BY <1>4, <4>1, <4>3, <5>1
      <4> QED
        BY <4>2, <4>3
    <3> QED
      BY <1>6, <1>7, <2>2, <3>1, <3>2, <3>3
  <2> QED
    BY <2>1, <2>2
<1>14. NotAhead'
  <2> SUFFICES ASSUME NEW f \in Fields, config[f] # NoValue, NEW n \in Maps,
                      config[f].file[1] = n
               PROVE  /\ config[f].version <= version[n]
                      /\ \A i \in DOMAIN stream'[n] : config[f].version <= stream'[n][i]
                      /\ Busy(n)' => config[f].version <= doing'[n].version
    <3>1. \A f \in Fields : config[f] # NoValue => config[f].file[1] \in Maps
      BY <1>1 DEF ConfigTypeOK, Values
    <3> QED
      BY <1>3, <3>1 DEF NotAhead, Busy
  <2>1. CASE n = m
    <3>1. config[f].version <= version[m] /\ \A i \in DOMAIN s : config[f].version <= s[i]
      BY <1>1, <2>1 DEF NotAhead, s
    <3>2. config[f].version <= v
      BY <1>4, <3>1
    <3>3. \A i \in DOMAIN Tail(s) : config[f].version <= Tail(s)[i]
      BY <1>4, <3>1
    <3> QED
      BY <1>6, <1>7, <2>1, <3>1, <3>2, <3>3
  <2>2. CASE n # m
    BY <1>1, <1>7, <2>2 DEF NotAhead, Busy
  <2> QED
    BY <2>1, <2>2
<1>15. Merging'
  <2> SUFFICES ASSUME NEW n \in open, ~wiped, stream'[n] = <<>>, NEW j \in Watched(n)
               PROVE  IsCurrent(n, j)' \/ (Busy(n)' /\ j \in ToSet(doing'[n].todo))
    BY <1>3 DEF Merging, Watched
  <2>1. n \in Maps /\ IsCurrent(n, j)' = IsCurrent(n, j)
    BY <1>1, <1>3 DEF ConfigTypeOK, IsCurrent
  <2>2. CASE n # m
    BY <1>7, <2>1, <2>2 DEF ConfigInv, Merging, Busy
  <2>3. CASE n = m
    BY <1>6, <1>8, <2>3 DEF ConfigInv, WatchedOK, Busy
  <2> QED
    BY <2>2, <2>3
<1> QED
  BY <1>9, <1>10, <1>11, <1>12, <1>13, <1>14, <1>15 DEF ConfigInv

\* With the keys of an event merged the goroutine waits for the next.
LEMMA EventDoneKeeps ==
  ASSUME ConfigInv, NEW m \in Maps, EventDone(m)
  PROVE  ConfigInv'
<1> USE DEF At, Go
<1>1. ConfigTypeOK /\ MainOK /\ VariantsOK /\ GoroutinesOK
  BY DEF ConfigInv
<1>2. m \in Actors /\ m # Main /\ doing[m] \in Doing /\ doing \in [Actors -> Doing]
  BY <1>1, DoingTyped DEF ConfigTypeOK
<1>3. /\ UNCHANGED <<plan, version, stream, open, monitor, shape, config, variant, raced, wiped, dead>>
      /\ doing' = [doing EXCEPT ![m].at = "idle"] /\ doing[m].at = "merge" /\ doing[m].todo = <<>>
  BY DEF EventDone
<1>4. /\ doing' \in [Actors -> Doing] /\ \A a \in Actors \ {m} : doing'[a] = doing[a]
      /\ doing'[m].at = "idle"
  BY <1>2, <1>3 DEF Doing
<1>5. /\ doing'[Main] = doing[Main] /\ ~Busy(m)' /\ Busy(m)
      /\ \A n \in Maps \ {m} : doing'[n] = doing[n]
  BY <1>1, <1>2, <1>3, <1>4, DoingTyped DEF Busy
<1>6. ConfigTypeOK'
  BY <1>1, <1>3, <1>4 DEF ConfigTypeOK
<1>7. MainOK'
  <2>1. Call' = Call /\ Calling' = Calling /\ MapOf(Main)' = MapOf(Main)
    BY <1>3, <1>5 DEF Call, Calling, MapOf
  <2> QED
    BY <1>1, <1>3, <1>5, <2>1 DEF MainOK, Loading
<1>8. GoroutinesOK' /\ Unwatched' /\ Nothing' /\ WatchedOK'
  BY <1>3, <1>4, <1>5 DEF ConfigInv, GoroutinesOK, Unwatched, Nothing, WatchedOK, Watched, Busy
<1>9. StreamsOK'
  BY <1>3, <1>5 DEF ConfigInv, StreamsOK, Sorted, Busy
<1>10. NotAhead'
  <2>1. \A f \in Fields : config[f] # NoValue => config[f].file[1] \in Maps
    BY <1>1 DEF ConfigTypeOK, Values
  <2> QED
    BY <1>3, <1>5, <2>1 DEF ConfigInv, NotAhead, Busy
<1>11. Merging'
  <2> SUFFICES ASSUME NEW n \in open, ~wiped, stream[n] = <<>>, NEW j \in Watched(n)
               PROVE  IsCurrent(n, j)' \/ (Busy(n)' /\ j \in ToSet(doing'[n].todo))
    BY <1>3 DEF Merging, Watched
  <2>1. n \in Maps /\ IsCurrent(n, j)' = IsCurrent(n, j)
    BY <1>1, <1>3 DEF ConfigTypeOK, IsCurrent
  <2>2. IsCurrent(n, j) \/ (Busy(n) /\ j \in ToSet(doing[n].todo))
    BY DEF ConfigInv, Merging
  <2>3. n = m => IsCurrent(n, j)
    <3>1. ToSet(doing[m].todo) = {}
      BY <1>1, <1>2, <1>3, DoingTyped, SeqMembers
    <3> QED
      BY <2>2, <3>1
  <2> QED
    BY <1>5, <2>1, <2>2, <2>3 DEF Busy
<1>12. VariantsOK'
  BY <1>1, <1>2, <1>3, <1>4, DoingTyped DEF VariantsOK, NobodyReads
<1> QED
  BY <1>6, <1>7, <1>8, <1>9, <1>10, <1>11, <1>12 DEF ConfigInv

-----------------------------------------------------------------------------

\* A new version of a config map goes to the end of its stream.
LEMMA ChangeKeeps ==
  ASSUME ConfigInv, NEW m \in Maps, Change(m)
  PROVE  ConfigInv'
<1> DEFINE s == stream[m]
           v == version[m] + 1
<1>1. ConfigTypeOK /\ MainOK /\ VariantsOK /\ GoroutinesOK /\ StreamsOK
  BY DEF ConfigInv
<1>2. /\ stream[m] \in Seq(Versions) /\ stream \in [Maps -> Seq(Versions)]
      /\ version \in [Maps -> Versions] /\ version[m] \in Nat /\ v \in Versions
  BY <1>1 DEF ConfigTypeOK, Versions
<1>3. /\ UNCHANGED <<plan, open, monitor, shape, config, variant, doing, raced, wiped, dead>>
      /\ version' = [version EXCEPT ![m] = v] /\ version[m] < MaxVersion[m]
      /\ stream' = [stream EXCEPT ![m] = IF m \in open THEN Append(s, v) ELSE s]
  BY DEF Change
<1>4. /\ version' \in [Maps -> Versions] /\ stream' \in [Maps -> Seq(Versions)]
      /\ version'[m] = v
      /\ stream'[m] = (IF m \in open THEN Append(s, v) ELSE s)
      /\ \A n \in Maps \ {m} : version'[n] = version[n] /\ stream'[n] = stream[n]
  BY <1>2, <1>3
<1>5. /\ Len(Append(s, v)) = Len(s) + 1 /\ Len(s) \in Nat /\ Append(s, v) # <<>>
      /\ DOMAIN s = 1 .. Len(s) /\ DOMAIN Append(s, v) = 1 .. Len(s) + 1
      /\ Append(s, v)[Len(s) + 1] = v
      /\ \A i \in 1 .. Len(s) : Append(s, v)[i] = s[i]
  <2> HIDE DEF s, v
  <2>1. s \in Seq(Versions) /\ v \in Versions
    BY <1>2 DEF s
  <2>2. Append(s, v) # <<>>
    BY <2>1, SeqMembers
  <2> QED
    BY <2>1, <2>2
<1>6. \A n \in Maps : Busy(n)' = Busy(n) /\ version[n] <= version'[n] /\ version[n] \in Nat
  BY <1>2, <1>3, <1>4 DEF Busy, Versions
<1> HIDE DEF s, v
<1>7. ConfigTypeOK'
  <2>1. v <= MaxVersion[m] /\ \A n \in Maps : version'[n] <= MaxVersion[n]
    <3>1. MaxVersion[m] \in Nat
      BY ConfigWatchAssumption DEF Versions
    <3>2. v <= MaxVersion[m]
      BY <1>2, <1>3, <3>1 DEF v
    <3> QED
      BY <1>1, <1>4, <3>2 DEF ConfigTypeOK
  <2> QED
    BY <1>1, <1>3, <1>4, <2>1 DEF ConfigTypeOK
<1>8. MainOK'
  <2>1. Call' = Call /\ Calling' = Calling /\ MapOf(Main)' = MapOf(Main)
    BY <1>3 DEF Call, Calling, MapOf
  <2> QED
    BY <1>1, <1>3, <2>1 DEF MainOK, Loading
<1>9. VariantsOK' /\ Nothing' /\ WatchedOK'
  BY <1>3 DEF ConfigInv, VariantsOK, NobodyReads, Nothing, WatchedOK, Watched
<1>10. Unwatched'
  BY <1>3, <1>4, <1>6 DEF ConfigInv, Unwatched, s
<1>11. GoroutinesOK'
  <2>1. \A n \in Maps : Busy(n) => doing[n].version \in 1 .. version'[n]
    BY <1>1, <1>2, <1>4, <1>6 DEF GoroutinesOK, Versions
  <2> QED
    BY <1>1, <1>3, <1>6, <2>1 DEF GoroutinesOK
<1>12. StreamsOK'
  <2> SUFFICES ASSUME NEW n \in Maps
               PROVE  /\ Sorted(stream'[n])
                      /\ \A i \in DOMAIN stream'[n] :
                           /\ stream'[n][i] <= version'[n]
                           /\ Busy(n) => doing[n].version <= stream'[n][i]
                      /\ n \in open => IF stream'[n] # <<>>
                                       THEN stream'[n][Len(stream'[n])] = version'[n]
                                       ELSE Busy(n) => doing[n].version = version'[n]
    BY <1>3, <1>6 DEF StreamsOK, Sorted
  <2>1. CASE n # m
    BY <1>1, <1>4, <2>1 DEF StreamsOK
  <2>2. CASE n = m /\ n \notin open
    <3>1. \A i \in DOMAIN s : s[i] \in Nat /\ s[i] <= version[m]
      BY <1>1, <1>2, <1>5 DEF StreamsOK, s, Versions
    <3>2. \A i \in DOMAIN s : s[i] <= version'[m]
      BY <1>2, <1>4, <3>1 DEF v
    <3> QED
      BY <1>1, <1>4, <2>2, <3>2 DEF StreamsOK, s
  <2>3. CASE n = m /\ n \in open
    <3> DEFINE t == Append(s, v)
    <3>1. stream'[n] = t
      BY <1>4, <2>3
    <3>2. \A i \in 1 .. Len(s) : s[i] \in Nat /\ s[i] <= version[m] /\ s[i] <= v
      BY <1>1, <1>2, <1>5 DEF StreamsOK, s, v, Versions
    <3>3. \A i \in 1 .. Len(s) + 1 : t[i] <= v
      BY <1>2, <1>5, <3>2 DEF v
    <3>4. Sorted(t)
      <4>1. ASSUME NEW i \in DOMAIN t, NEW j \in DOMAIN t, i <= j
            PROVE  t[i] <= t[j]
        <5>1. CASE j = Len(s) + 1
          BY <1>5, <3>3, <4>1, <5>1
        <5>2. CASE j # Len(s) + 1
          <6>1. i \in DOMAIN s /\ j \in DOMAIN s /\ t[i] = s[i] /\ t[j] = s[j]
            BY <1>5, <4>1, <5>2
          <6> QED
            BY <1>1, <4>1, <6>1 DEF StreamsOK, Sorted, s
        <5> QED
          BY <5>1, <5>2
      <4> QED
        BY <4>1 DEF Sorted
    <3>5. Busy(n) => \A i \in DOMAIN t : doing[n].version <= t[i]
      <4>1. Busy(n) => doing[n].version <= v
        BY <1>1, <1>2, <2>3 DEF GoroutinesOK, v, Versions
      <4>2. Busy(n) => \A i \in 1 .. Len(s) : doing[n].version <= s[i]
        BY <1>1, <1>5, <2>3 DEF StreamsOK, s
      <4> QED
        BY <1>5, <4>1, <4>2
    <3> QED
      BY <1>4, <1>5, <2>3, <3>1, <3>3, <3>4, <3>5
  <2> QED
    BY <2>1, <2>2, <2>3
<1>13. NotAhead'
  <2> SUFFICES ASSUME NEW f \in Fields, config[f] # NoValue, NEW n \in Maps,
                      config[f].file[1] = n
               PROVE  /\ config[f].version <= version'[n]
                      /\ \A i \in DOMAIN stream'[n] : config[f].version <= stream'[n][i]
                      /\ Busy(n) => config[f].version <= doing[n].version
    <3>1. \A f \in Fields : config[f] # NoValue => config[f].file[1] \in Maps
      BY <1>1 DEF ConfigTypeOK, Values
    <3> QED
      BY <1>3, <3>1 DEF NotAhead, Busy
  <2>1. /\ config[f].version <= version[n] /\ config[f].version \in Nat
        /\ \A i \in DOMAIN stream[n] : config[f].version <= stream[n][i]
        /\ Busy(n) => config[f].version <= doing[n].version
    BY <1>1 DEF ConfigInv, NotAhead, ConfigTypeOK, Values, Versions
  <2>2. version'[n] \in Nat /\ config[f].version <= version'[n]
    BY <1>4, <1>6, <2>1 DEF Versions
  <2>3. CASE n = m /\ n \in open
    <3>1. stream'[n] = Append(s, v) /\ config[f].version <= v
      BY <1>4, <2>2, <2>3
    <3>2. \A i \in 1 .. Len(s) : config[f].version <= Append(s, v)[i]
      BY <1>5, <2>1, <2>3 DEF s
    <3>3. \A i \in 1 .. Len(s) + 1 : i = Len(s) + 1 \/ i \in 1 .. Len(s)
      BY <1>5
    <3>4. \A i \in DOMAIN stream'[n] : config[f].version <= stream'[n][i]
      BY <1>5, <3>1, <3>2, <3>3
    <3> QED
      BY <2>1, <2>2, <3>4
  <2>4. CASE n # m \/ n \notin open
    BY <1>4, <2>1, <2>2, <2>4 DEF s
  <2> QED
    BY <2>3, <2>4
<1>14. Merging'
  <2> SUFFICES ASSUME NEW n \in open, ~wiped, stream'[n] = <<>>, NEW j \in Watched(n)
               PROVE  IsCurrent(n, j)' \/ (Busy(n) /\ j \in ToSet(doing[n].todo))
    BY <1>3 DEF Merging, Watched, Busy
  <2>1. n \in Maps /\ n # m
    BY <1>1, <1>4, <1>5 DEF ConfigTypeOK
  <2>2. IsCurrent(n, j)' = IsCurrent(n, j) /\ stream[n] = <<>>
    BY <1>3, <1>4, <2>1 DEF IsCurrent
  <2> QED
    BY <2>2 DEF ConfigInv, Merging
<1> QED
  BY <1>7, <1>8, <1>9, <1>10, <1>11, <1>12, <1>13, <1>14 DEF ConfigInv

\* A stream ends: nothing more is promised of its config map.
LEMMA EndStreamKeeps ==
  ASSUME ConfigInv, NEW m \in Maps, EndStream(m)
  PROVE  ConfigInv'
<1>1. /\ UNCHANGED <<plan, version, stream, monitor, shape, config, variant, doing, raced, wiped, dead>>
      /\ open' = open \ {m}
  BY DEF EndStream
<1>2. ConfigTypeOK'
  BY <1>1 DEF ConfigInv, ConfigTypeOK
<1>3. MainOK'
  <2>1. Call' = Call /\ Calling' = Calling /\ MapOf(Main)' = MapOf(Main)
    BY <1>1 DEF Call, Calling, MapOf
  <2> QED
    BY <1>1, <2>1 DEF ConfigInv, MainOK, Loading
<1>4. GoroutinesOK' /\ Unwatched' /\ Nothing' /\ WatchedOK' /\ VariantsOK'
  BY <1>1 DEF ConfigInv, GoroutinesOK, Unwatched, Nothing, WatchedOK, Watched, Busy, VariantsOK,
              NobodyReads
<1>5. StreamsOK'
  BY <1>1 DEF ConfigInv, StreamsOK, Sorted, Busy
<1>6. NotAhead'
  BY <1>1 DEF ConfigInv, NotAhead, Busy
<1>7. Merging'
  BY <1>1 DEF ConfigInv, Merging, IsCurrent, Watched, Busy
<1> QED
  BY <1>2, <1>3, <1>4, <1>5, <1>6, <1>7 DEF ConfigInv

\* The end of the process, and steps of others.
LEMMA OtherSteps ==
  ASSUME ConfigInv, MonitorRace \/ UNCHANGED configVars
  PROVE  ConfigInv'
<1>1. /\ UNCHANGED <<plan, version, stream, open, monitor, shape, config, variant, doing, raced, wiped>>
      /\ dead' \in BOOLEAN
  BY DEF MonitorRace, configVars, ConfigInv, ConfigTypeOK
<1>2. ConfigTypeOK' /\ VariantsOK'
  BY <1>1 DEF ConfigInv, ConfigTypeOK, VariantsOK, NobodyReads
<1>3. MainOK'
  <2>1. Call' = Call /\ Calling' = Calling /\ MapOf(Main)' = MapOf(Main)
    BY <1>1 DEF Call, Calling, MapOf
  <2> QED
    BY <1>1, <2>1 DEF ConfigInv, MainOK, Loading
<1>4. /\ GoroutinesOK' /\ Unwatched' /\ StreamsOK' /\ NotAhead' /\ Nothing' /\ WatchedOK'
      /\ Merging'
  <2>1. \A m \in Maps : doing[m].at \in {"idle", "merge", "read", "write"}
    BY DEF ConfigInv, GoroutinesOK
  <2> QED
    BY <1>1, <2>1, MovesKeep
<1> QED
  BY <1>2, <1>3, <1>4 DEF ConfigInv

-----------------------------------------------------------------------------

\* Every step keeps the invariant, and no field goes back.
LEMMA NextConfigInv ==
  ASSUME ConfigInv, [ConfigNext]_configVars
  PROVE  ConfigInv' /\ (Forward \/ UNCHANGED config)
<1>1. CASE StartWatch \/ AddedAll \/ LoadedAll \/ FinalVariants
  BY <1>1, MainMoves DEF StartWatch, AddedAll, LoadedAll, FinalVariants
<1>2. CASE AddKey
  BY <1>2, AddKeyKeeps DEF AddKey
<1>3. CASE LoadKey
  BY <1>3, LoadKeyKeeps
<1>4. CASE OpenStream
  BY <1>4, OpenStreamKeeps DEF OpenStream
<1>5. ASSUME NEW a \in Actors, ReadVariant(a) \/ WriteVariant(a)
      PROVE  ConfigInv' /\ UNCHANGED config
  BY <1>5, VariantSteps DEF ReadVariant, WriteVariant
<1>6. ASSUME NEW m \in Maps, TakeEvent(m)
      PROVE  ConfigInv' /\ UNCHANGED config
  BY <1>6, TakeEventKeeps DEF TakeEvent
<1>7. ASSUME NEW m \in Maps, MergeKey(m)
      PROVE  ConfigInv' /\ Forward
  BY <1>7, MergeKeyKeeps
<1>8. ASSUME NEW m \in Maps, EventDone(m)
      PROVE  ConfigInv' /\ UNCHANGED config
  BY <1>8, EventDoneKeeps DEF EventDone
<1>9. ASSUME NEW m \in Maps, Change(m)
      PROVE  ConfigInv' /\ UNCHANGED config
  BY <1>9, ChangeKeeps DEF Change
<1>10. ASSUME NEW m \in Maps, EndStream(m)
       PROVE  ConfigInv' /\ UNCHANGED config
  BY <1>10, EndStreamKeeps DEF EndStream
<1>11. CASE MonitorRace \/ UNCHANGED configVars
  BY <1>11, OtherSteps DEF MonitorRace, configVars
<1> QED
  BY <1>1, <1>2, <1>3, <1>4, <1>5, <1>6, <1>7, <1>8, <1>9, <1>10, <1>11 DEF ConfigNext

\* The inductive invariant of the configuration holds for any calls of Watch and any files.
THEOREM ConfigInvHolds == ConfigSpec => []ConfigInv
<1>1. ConfigInv /\ [ConfigNext]_configVars => ConfigInv'
  BY NextConfigInv
<1> QED
  BY <1>1, InitConfigInv, PTL DEF ConfigSpec

\* The types of the configuration, of its goroutines and of their streams.
THEOREM ConfigTypesHold == ConfigSpec => []ConfigTypeOK
BY ConfigInvHolds, PTL DEF ConfigInv

\* Follows: what is watched is in the configuration once it is merged, and a
\* variant is the field that it is a copy of, for any config maps, keys, fields
\* and files, overlapping or not (configmap.go:236-266, variants.go:12-20).
THEOREM FollowsHolds == ConfigSpec => []Follows
<1>1. ConfigInv => ConfigFollows
  BY DEF ConfigInv, Merging, ConfigFollows, Settled, IsCurrent, Busy
<1>2. ConfigInv => VariantFollows
  <2> SUFFICES ASSUME ConfigInv, \A a \in Actors : doing[a].at = "idle", ~raced
               PROVE  variant = config[Variant]
    BY DEF VariantFollows
  <2>1. NobodyReads
    BY DoingTyped DEF ConfigInv, NobodyReads
  <2> QED
    BY <2>1 DEF ConfigInv, VariantsOK
<1> QED
  BY <1>1, <1>2, ConfigInvHolds, PTL DEF Follows

\* NoStepBack: no field goes back to an earlier version of its file, whichever
\* goroutine merges and whatever main has read before (configmap.go:196-259).
THEOREM NoStepBackHolds == ConfigSpec => NoStepBack
<1>1. ConfigInv /\ [ConfigNext]_configVars => [Forward]_configVars
  <2> SUFFICES ASSUME ConfigInv, [ConfigNext]_configVars
               PROVE  [Forward]_configVars
    OBVIOUS
  <2>1. CASE Forward
    BY <2>1
  <2>2. CASE UNCHANGED config
    <3>1. \A f \in Fields : config[f] # NoValue => config[f].version \in Nat
      BY DEF ConfigInv, ConfigTypeOK, Values, Versions
    <3> QED
      BY <2>2, <3>1 DEF Forward
  <2> QED
    BY <2>1, <2>2, NextConfigInv
<1> QED
  BY <1>1, ConfigInvHolds, PTL DEF ConfigSpec, NoStepBack, Forward

-----------------------------------------------------------------------------
(* The listeners to a config map *)

\* A channel is closed after its entry is gone, and the mutex is kept until then.
EntryGone ==
  /\ stopping # Idle => entry = 0
  /\ closing => stopping \in 1 .. listens
  /\ stopping \in (0 .. listens) \cup {Idle}
  /\ closed \subseteq 1 .. listens

ListenerInv == ListenerTypeOK /\ EntryGone

\* Nothing listens at first.
LEMMA InitListenerInv == ListenerInit => ListenerInv
<1> SUFFICES ASSUME ListenerInit
             PROVE  ListenerInv
  OBVIOUS
<1> USE MapListenerAssumption DEF ListenerInit, Idle, Listeners, Events, Stopped
<1>1. channel \in [Listeners -> Seq(Events)] /\ \A i \in Listeners : Len(channel[i]) <= Room
  <2>1. \A i \in Listeners : channel[i] = <<>> /\ Len(channel[i]) = 0
    OBVIOUS
  <2>2. channel \in [Listeners -> Seq(Events)]
    OBVIOUS
  <2> QED
    BY <2>1, <2>2
<1>2. sent \in [Listeners -> 0 .. MaxChanges]
  <2>1. 0 \in 0 .. MaxChanges
    OBVIOUS
  <2> QED
    BY <2>1
<1>3. /\ current \in 1 .. MaxChanges /\ entry \in 0 .. listens /\ listens \in 0 .. MaxListens
      /\ stopping \in 0 .. Idle /\ closing = FALSE /\ panicked = FALSE
      /\ closed = {} /\ pollers = {} /\ running = {} /\ entry = 0
  OBVIOUS
<1> QED
  BY <1>1, <1>2, <1>3 DEF ListenerInv, ListenerTypeOK, EntryGone

\* Every step of the listeners, the informers and the pollers keeps the invariant.
LEMMA NextListenerInv ==
  ASSUME ListenerInv, [ListenerNext]_listenerVars
  PROVE  ListenerInv'
<1> USE MapListenerAssumption DEF ListenerInv, EntryGone, Idle, Listeners, Events, Stopped
<1>1. CASE ListenConfigMap
  <2>1. /\ UNCHANGED <<current, channel, closed, closing, sent, stopping, panicked>>
        /\ listens < MaxListens /\ listens' = listens + 1 /\ entry' = listens + 1
        /\ pollers' = pollers \cup {listens + 1} /\ running' = running \cup {listens + 1}
        /\ stopping = Idle
    BY <1>1 DEF ListenConfigMap, Unlocked
  <2>2. listens \in 0 .. MaxListens /\ closed \subseteq 1 .. listens /\ ~closing
    BY <2>1 DEF ListenerTypeOK
  <2>3. listens' \in 0 .. MaxListens /\ entry' \in 0 .. listens' /\ entry' \in Listeners
    BY <2>1, <2>2
  <2>4. entry' \notin closed /\ closed \subseteq 1 .. listens'
    BY <2>1, <2>2
  <2>5. pollers' \subseteq Listeners /\ running' \subseteq Listeners
    BY <2>1, <2>3 DEF ListenerTypeOK
  <2>6. ListenerTypeOK'
    BY <2>1, <2>3, <2>4, <2>5 DEF ListenerTypeOK
  <2>7. EntryGone'
    BY <2>1, <2>2, <2>4
  <2> QED
    BY <2>6, <2>7
<1>2. CASE Edit
  BY <1>2 DEF Edit, ListenerTypeOK
<1>3. CASE StopListenConfigMap
  BY <1>3 DEF StopListenConfigMap, Unlocked, ListenerTypeOK
<1>4. ASSUME NEW i \in Listeners, NEW e \in Events, HasRoom(i),
             channel' = [channel EXCEPT ![i] = Append(@, e)]
      PROVE  channel' \in [Listeners -> Seq(Events)] /\ \A j \in Listeners : Len(channel'[j]) <= Room
  <2>1. channel[i] \in Seq(Events) /\ Len(channel[i]) < Room
    BY <1>4 DEF HasRoom, ListenerTypeOK
  <2>2. Append(channel[i], e) \in Seq(Events) /\ Len(Append(channel[i], e)) = Len(channel[i]) + 1
    BY <2>1
  <2>3. Len(Append(channel[i], e)) <= Room
    BY <2>1, <2>2
  <2> QED
    BY <1>4, <2>2, <2>3 DEF ListenerTypeOK
<1>5. CASE StopSends
  <2>1. /\ channel' = [channel EXCEPT ![stopping] = Append(@, Stopped)] /\ HasRoom(stopping)
        /\ stopping \in Listeners /\ closing' = TRUE
        /\ UNCHANGED <<current, entry, listens, closed, sent, pollers, running, stopping, panicked>>
    BY <1>5 DEF StopSends
  <2>2. Stopped \in Events
    OBVIOUS
  <2>3. channel' \in [Listeners -> Seq(Events)] /\ \A j \in Listeners : Len(channel'[j]) <= Room
    <3> HIDE DEF ListenerInv, Listeners, Events, Stopped
    <3> QED
      BY <1>4, <2>1, <2>2
  <2>4. stopping \in 1 .. listens /\ entry = 0 /\ entry \notin closed
    BY <2>1 DEF ListenerTypeOK
  <2> QED
    BY <2>1, <2>3, <2>4 DEF ListenerTypeOK
<1>6. CASE StopCloses
  <2>1. /\ UNCHANGED <<current, entry, listens, channel, sent, pollers, running, panicked>>
        /\ closed' = closed \cup {stopping} /\ stopping' = Idle /\ closing' = FALSE /\ closing
    BY <1>6 DEF StopCloses
  <2>2. listens \in 0 .. MaxListens /\ stopping \in 1 .. listens
    BY <2>1 DEF ListenerTypeOK
  <2>3. stopping \in Listeners /\ stopping # Idle
    BY <2>2
  <2>4. entry = 0 /\ entry \notin closed'
    BY <2>1, <2>2, <2>3 DEF ListenerTypeOK
  <2>5. closed' \subseteq 1 .. listens /\ closed' \subseteq Listeners
    BY <2>1, <2>2, <2>3 DEF ListenerTypeOK
  <2>6. stopping' \in 0 .. Idle
    BY <2>1
  <2>7. stopping' \in (0 .. listens) \cup {Idle}
    BY <2>1
  <2>8. closing' \in BOOLEAN /\ ~closing'
    BY <2>1
  <2> QED
    BY <2>1, <2>4, <2>5, <2>6, <2>7, <2>8 DEF ListenerTypeOK
<1>7. ASSUME NEW i \in Listeners, Poll(i)
      PROVE  ListenerInv'
  BY <1>7 DEF Poll, ListenerTypeOK
<1>8. ASSUME NEW i \in Listeners, Inform(i)
      PROVE  ListenerInv'
  <2>1. /\ UNCHANGED <<current, entry, listens, closed, closing, pollers, running, stopping>>
        /\ panicked' \in BOOLEAN
        /\ \/ UNCHANGED <<channel, sent>>
           \/ /\ HasRoom(i) /\ sent' = [sent EXCEPT ![i] = current]
              /\ channel' = [channel EXCEPT ![i] = Append(@, current)]
    BY <1>8 DEF Inform, ListenerTypeOK
  <2>2. channel' \in [Listeners -> Seq(Events)] /\ \A j \in Listeners : Len(channel'[j]) <= Room
    <3>1. CASE UNCHANGED <<channel, sent>>
      BY <3>1 DEF ListenerTypeOK
    <3>2. CASE HasRoom(i) /\ channel' = [channel EXCEPT ![i] = Append(@, current)]
      <4>1. current \in Events
        BY DEF ListenerTypeOK
      <4> QED
        BY <1>4, <1>8, <3>2, <4>1
    <3> QED
      BY <2>1, <3>1, <3>2
  <2>3. sent' \in [Listeners -> 0 .. MaxChanges]
    <3>1. current \in 0 .. MaxChanges /\ sent \in [Listeners -> 0 .. MaxChanges]
      BY DEF ListenerTypeOK
    <3>2. sent' = sent \/ sent' = [sent EXCEPT ![i] = current]
      BY <2>1
    <3> HIDE DEF ListenerInv, Listeners
    <3> QED
      BY <3>1, <3>2
  <2> QED
    BY <2>1, <2>2, <2>3 DEF ListenerTypeOK
<1>9. ASSUME NEW i \in Listeners, Receive(i)
      PROVE  ListenerInv'
  <2>1. /\ UNCHANGED <<current, entry, listens, closed, closing, sent, pollers, running, stopping, panicked>>
        /\ channel[i] # <<>> /\ channel' = [channel EXCEPT ![i] = Tail(@)]
    BY <1>9 DEF Receive
  <2>2. channel[i] \in Seq(Events) /\ Len(channel[i]) <= Room /\ Len(channel[i]) \in Nat
    BY <1>9 DEF ListenerTypeOK
  <2>3. Tail(channel[i]) \in Seq(Events) /\ Len(Tail(channel[i])) = Len(channel[i]) - 1
    <3> DEFINE c == channel[i]
    <3>1. c \in Seq(Events) /\ c # <<>>
      BY <2>1, <2>2
    <3> HIDE DEF c, Events, ListenerInv
    <3>2. Tail(c) \in Seq(Events) /\ Len(Tail(c)) = Len(c) - 1
      BY <3>1
    <3> QED
      BY <3>2 DEF c
  <2>4. Len(Tail(channel[i])) <= Room
    BY <2>2, <2>3
  <2> QED
    BY <2>1, <2>3, <2>4 DEF ListenerTypeOK
<1>10. CASE UNCHANGED listenerVars
  BY <1>10 DEF listenerVars, ListenerTypeOK
<1> QED
  BY <1>1, <1>2, <1>3, <1>5, <1>6, <1>7, <1>8, <1>9, <1>10 DEF ListenerNext

-----------------------------------------------------------------------------
(* All parts *)

\* The framework as the runs check it, one of its parts at a time, keeps the
\* types of all: for any clients, requests, listeners, config maps and files.
THEOREM FrameworkTypesHold == Spec => []FrameworkTypeOK
<1> DEFINE Inv == LockInv /\ ServerInv /\ ListenerInv /\ ConfigInv
<1>1. Init => Inv
  BY LockInit, InitServerInv, InitListenerInv, InitConfigInv DEF Init
<1>2. Inv /\ [Next]_vars => Inv'
  <2> SUFFICES ASSUME Inv, [Next]_vars
               PROVE  Inv'
    OBVIOUS
  <2>1. /\ [RedisLockNext]_redisLockVars /\ [ServerNext]_serverVars
        /\ [ListenerNext]_listenerVars /\ [ConfigNext]_configVars
    BY DEF Next, vars, parts
  <2>2. LockInv'
    BY <2>1, LockTypeStep, HoldersHaveStep DEF LockInv
  <2>3. ServerInv' /\ ListenerInv' /\ ConfigInv'
    BY <2>1, NextServerInv, NextListenerInv, NextConfigInv
  <2> QED
    BY <2>2, <2>3
<1>3. Inv => FrameworkTypeOK
  BY DEF LockInv, ServerInv, ListenerInv, ConfigInv, FrameworkTypeOK
<1> QED
  BY <1>1, <1>2, <1>3, PTL DEF Spec
=============================================================================
