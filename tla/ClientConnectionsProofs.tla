---------------------- MODULE ClientConnectionsProofs ----------------------
(***************************************************************************)
(* The safety of the connection registry for every number of users,        *)
(* connections, goroutines and every capacity of the send channels.        *)
(***************************************************************************)
EXTENDS ClientConnections, TLAPS

(***************************************************************************)
(* The inductive invariant.  The properties of interest speak of locks and *)
(* of the registry; the conjuncts below tie the goroutines to them.        *)
(***************************************************************************)

\* A goroutine that works on a connection or an entry has one to work on.
Bound ==
  /\ \A c \in Conns :
       /\ reader[c] = "off" <=> request[c] # "connected"
       /\ request[c] = "creating" => clients[Owner[c]] # NoClient
       /\ reader[c] = "gone" => socket[c] = "closed"
  /\ \A h \in Handlers : handler[h] # "idle" => frame[h].conn \in Conns
  /\ \A d \in Deliverers :
       /\ deliverer[d] \in {"client", "each", "send"} => entry[d] \in Conns
       /\ deliverer[d] = "send" => at[d] \in Conns

\* An entry belongs to the user of the request that created it.
EntryOfItsRequest ==
  \A u \in Users :
    clients[u] # NoClient =>
      /\ Owner[clients[u]] = u
      /\ request[clients[u]] # "new"

\* A deliverer that holds client.mu ranges over connections of that entry.
RangeOverRegistered ==
  \A d \in Deliverers :
    /\ deliverer[d] \in {"each", "send"} => left[d] \subseteq connections[entry[d]]
    /\ deliverer[d] = "send" => at[d] \in connections[entry[d]]

IndInv ==
  /\ TypeOK
  /\ Bound
  /\ MutexOwnership
  /\ EntryOfItsRequest
  /\ RegisteredIffLive
  /\ EmptyEntryAwaitsItsRequest
  /\ RangeOverRegistered

-----------------------------------------------------------------------------
\* No two goroutines share a name, so a mutex has one holder.
LEMMA GoroutineNames ==
  /\ \A b, c \in Conns : /\ Request(b) = Request(c) <=> b = c
                         /\ Reader(b) = Reader(c) <=> b = c
                         /\ Request(b) # Reader(c)
                         /\ Request(b) # Free
                         /\ Reader(b) # Free
  /\ \A g, h \in Handlers : Handler(g) = Handler(h) <=> g = h
  /\ \A d, e \in Deliverers : Deliverer(d) = Deliverer(e) <=> d = e
  /\ \A h \in Handlers, c \in Conns : Handler(h) # Request(c) /\ Handler(h) # Reader(c)
  /\ \A d \in Deliverers, c \in Conns : Deliverer(d) # Request(c) /\ Deliverer(d) # Reader(c)
  /\ \A h \in Handlers, d \in Deliverers : Handler(h) # Deliverer(d)
  /\ \A c \in Conns : {Request(c), Reader(c)} \subseteq Goroutines \ {Free}
  /\ \A h \in Handlers : Handler(h) \in Goroutines \ {Free}
  /\ \A d \in Deliverers : Deliverer(d) \in Goroutines \ {Free}
BY DEF Request, Reader, Handler, Deliverer, Free, Goroutines

\* The inductive invariant holds when the pod starts.
LEMMA InitIndInv == Init => IndInv
<1> SUFFICES ASSUME Init
             PROVE  IndInv
  OBVIOUS
<1> USE ConnsAssumption, GoroutineNames DEF Init
<1>1. TypeOK
  <2>1. NoFrame \in [kind : FrameKinds, conn : Entries]
    BY DEF NoFrame, FrameKinds, Entries
  <2>2. frame \in [Handlers -> [kind : FrameKinds, conn : Entries]]
    BY <2>1
  <2>3. /\ clients \in [Users -> Entries]
        /\ entry \in [Deliverers -> Entries]
        /\ at \in [Deliverers -> Entries]
    BY DEF Entries
  <2>4. send \in [Conns -> 0 .. Cap]
    OBVIOUS
  <2> HIDE DEF Init
  <2>5. /\ connections \in [Conns -> SUBSET Conns]
        /\ todo \in [Deliverers -> SUBSET Users]
        /\ left \in [Deliverers -> SUBSET Conns]
    BY DEF Init
  <2>6. /\ serverMu \in Goroutines \cup {Free}
        /\ clientMu \in [Conns -> Goroutines \cup {Free}]
        /\ connMu \in [Conns -> Goroutines \cup {Free}]
    BY DEF Init
  <2> QED
    BY <2>2, <2>3, <2>4, <2>5, <2>6 DEF TypeOK, Init
<1>2. Bound /\ EntryOfItsRequest /\ RangeOverRegistered
  BY DEF Bound, EntryOfItsRequest, RangeOverRegistered
<1>3. ServerMuOwnership
  BY DEF ServerMuOwnership, RequestHoldsServer, ReaderHoldsServer,
         HandlerHoldsServer, DelivererHoldsServer
<1>4. ClientMuOwnership /\ ConnMuOwnership
  BY DEF ClientMuOwnership, ConnMuOwnership, HandlerHoldsConn
<1>5. RegisteredIffLive /\ EmptyEntryAwaitsItsRequest
  BY DEF RegisteredIffLive, EmptyEntryAwaitsItsRequest, Live
<1> QED
  BY <1>1, <1>2, <1>3, <1>4, <1>5 DEF IndInv, MutexOwnership

\* One step per action; the removal of a connection, which disturbs every
\* conjunct, has one step per conjunct.
LEMMA NextIndInv == IndInv /\ [Next]_vars => IndInv'
<1> SUFFICES ASSUME IndInv, [Next]_vars
             PROVE  IndInv'
  OBVIOUS
<1> USE ConnsAssumption, GoroutineNames
    DEF IndInv, TypeOK, Bound, MutexOwnership, ServerMuOwnership,
        ClientMuOwnership, ConnMuOwnership, RequestHoldsServer, ReaderHoldsServer,
        HandlerHoldsServer, DelivererHoldsServer, HandlerHoldsConn,
        EntryOfItsRequest, RegisteredIffLive, EmptyEntryAwaitsItsRequest,
        RangeOverRegistered, Live, Entries, FrameKinds, Deliverers, Enqueue, Step,
        LockServer, LockConnMu, UnlockConnMu, CanLockClient, EntryFor, Without,
        LastConnection, AfterDelivery,
        locks, registry, pumps, handlers, delivery, job
<1>1. ASSUME NEW c \in Conns, Validate(c)
      PROVE  IndInv'
  BY <1>1 DEF Validate
<1>2. ASSUME NEW c \in Conns, RefuseUpgrade(c)
      PROVE  IndInv'
  BY <1>2 DEF RefuseUpgrade
<1>3. ASSUME NEW c \in Conns, PanicInCreate(c)
      PROVE  IndInv'
  BY <1>3 DEF PanicInCreate
<1>4. ASSUME NEW c \in Conns, Upgrade(c)
      PROVE  IndInv'
  BY <1>4 DEF Upgrade
<1>5. ASSUME NEW c \in Conns, Register(c)
      PROVE  IndInv'
  BY <1>5 DEF Register
<1>6. ASSUME NEW c \in Conns, ReadFails(c)
      PROVE  IndInv'
  BY <1>6 DEF ReadFails
<1>7. ASSUME NEW c \in Conns, DisconnectLockServer(c)
      PROVE  IndInv'
  BY <1>7 DEF DisconnectLockServer
<1>8. ASSUME NEW c \in Conns, DisconnectLockConn(c)
      PROVE  IndInv'
  BY <1>8 DEF DisconnectLockConn
<1>9. ASSUME NEW c \in Conns, DisconnectRemove(c)
      PROVE  IndInv'
  <2>1. TypeOK'
    BY <1>9 DEF DisconnectRemove
  <2>2. Bound'
    BY <1>9 DEF DisconnectRemove
  <2>3. MutexOwnership'
    BY <1>9 DEF DisconnectRemove
  <2>4. EntryOfItsRequest'
    BY <1>9 DEF DisconnectRemove
  <2>5. RegisteredIffLive'
    BY <1>9 DEF DisconnectRemove
  <2>6. EmptyEntryAwaitsItsRequest'
    <3> SUFFICES ASSUME NEW u \in Users, clients'[u] # NoClient,
                        connections'[clients'[u]] = {}
                 PROVE  /\ Owner[clients'[u]] = u
                        /\ request'[clients'[u]] \in {"validated", "creating", "refused"}
      OBVIOUS
    <3>1. clients'[u] = clients[u] /\ request' = request
      BY <1>9 DEF DisconnectRemove
    <3>2. connections[clients[u]] = {}
      BY <1>9, <3>1 DEF DisconnectRemove
    <3> QED
      BY <3>1, <3>2
  <2>7. RangeOverRegistered'
    BY <1>9 DEF DisconnectRemove
  <2> QED
    BY <2>1, <2>2, <2>3, <2>4, <2>5, <2>6, <2>7
<1>10. ASSUME NEW c \in Conns, Break(c)
       PROVE  IndInv'
  BY <1>10 DEF Break
<1>11. ASSUME NEW c \in Conns, TakeMessage(c)
       PROVE  IndInv'
  BY <1>11 DEF TakeMessage
<1>12. ASSUME NEW c \in Conns, Flush(c)
       PROVE  IndInv'
  BY <1>12 DEF Flush
<1>13. ASSUME NEW c \in Conns, PingFails(c)
       PROVE  IndInv'
  BY <1>13 DEF PingFails
<1>14. ASSUME NEW h \in Handlers, ReplyUnlocked(h)
       PROVE  IndInv'
  BY <1>14 DEF ReplyUnlocked
<1>15. ASSUME NEW h \in Handlers, HandlerLockConn(h)
       PROVE  IndInv'
  BY <1>15 DEF HandlerLockConn
<1>16. ASSUME NEW h \in Handlers, ReplyLocked(h)
       PROVE  IndInv'
  BY <1>16 DEF ReplyLocked
<1>17. ASSUME NEW h \in Handlers, DeleteLockServer(h)
       PROVE  IndInv'
  BY <1>17 DEF DeleteLockServer
<1>18. ASSUME NEW h \in Handlers, DeleteFindsNoClient(h)
       PROVE  IndInv'
  BY <1>18 DEF DeleteFindsNoClient
<1>19. ASSUME NEW h \in Handlers, DeleteSilently(h)
       PROVE  IndInv'
  BY <1>19 DEF DeleteSilently
<1>20. ASSUME NEW h \in Handlers, DeleteFromList(h)
       PROVE  IndInv'
  BY <1>20 DEF DeleteFromList
<1>21. ASSUME NEW h \in Handlers, DeleteReply(h)
       PROVE  IndInv'
  BY <1>21 DEF DeleteReply
<1>22. ASSUME NEW d \in Deliverers, NEW u \in Users, ReceiverAbsent(d, u)
       PROVE  IndInv'
  BY <1>22 DEF ReceiverAbsent
<1>23. ASSUME NEW d \in Deliverers, NEW u \in Users, ReceiverFound(d, u)
       PROVE  IndInv'
  BY <1>23 DEF ReceiverFound
<1>24. ASSUME NEW d \in Deliverers, MapRace(d)
       PROVE  IndInv'
  BY <1>24 DEF MapRace
<1>25. ASSUME NEW d \in Deliverers, LockClient(d)
       PROVE  IndInv'
  BY <1>25 DEF LockClient
<1>26. ASSUME NEW d \in Deliverers, NEW c \in Conns, LockConn(d, c)
       PROVE  IndInv'
  BY <1>26 DEF LockConn
<1>27. ASSUME NEW d \in Deliverers, NEW c \in Conns, SkipFiltered(d, c)
       PROVE  IndInv'
  BY <1>27 DEF SkipFiltered
<1>28. ASSUME NEW d \in Deliverers, Deliver(d)
       PROVE  IndInv'
  BY <1>28 DEF Deliver
<1>29. ASSUME NEW d \in Deliverers, ReceiverServed(d)
       PROVE  IndInv'
  BY <1>29 DEF ReceiverServed
<1>30. ASSUME NEW d \in Deliverers, FinishDelivery(d)
       PROVE  IndInv'
  BY <1>30 DEF FinishDelivery
<1>31. ASSUME NEW c \in Conns, NEW h \in Handlers, NEW kind \in Actions, ReadFrame(c, h, kind)
       PROVE  IndInv'
  <2>1. [kind |-> kind, conn |-> c] \in [kind : FrameKinds, conn : Entries]
    BY ConnsAssumption DEF Entries
  <2>2. TypeOK'
    BY <1>31, <2>1 DEF ReadFrame
  <2>3. Bound' /\ RangeOverRegistered'
    BY <1>31 DEF ReadFrame
  <2>4. MutexOwnership'
    BY <1>31 DEF ReadFrame
  <2>5. EntryOfItsRequest' /\ RegisteredIffLive' /\ EmptyEntryAwaitsItsRequest'
    BY <1>31 DEF ReadFrame
  <2> QED
    BY <2>2, <2>3, <2>4, <2>5
<1>32. ASSUME NEW d \in Deliverers, NEW target \in SUBSET Users, StartRedirect(d, target)
       PROVE  IndInv'
  BY <1>32 DEF StartRedirect
<1>33. ASSUME NEW d \in Deliverers, NEW user \in Users, StartPush(d, user)
       PROVE  IndInv'
  BY <1>33 DEF StartPush
<1>34. CASE UNCHANGED vars
  BY <1>34 DEF vars
<1> HIDE DEF IndInv
<1> QED
  BY <1>1, <1>2, <1>3, <1>4, <1>5, <1>6, <1>7, <1>8, <1>9, <1>10, <1>11, <1>12, <1>13, <1>14, <1>15, <1>16, <1>17, <1>18, <1>19, <1>20, <1>21, <1>22, <1>23, <1>24, <1>25, <1>26, <1>27, <1>28, <1>29, <1>30, <1>31, <1>32, <1>33, <1>34
     DEF Next, RequestStep, ReaderStep, WriterStep, HandlerStep, DelivererStep,
         Arrival

-----------------------------------------------------------------------------

\* It holds always: the mutexes, the entries and the deliverers agree.
LEMMA IndInvInvariant == Spec => []IndInv
BY InitIndInv, NextIndInv, PTL DEF Spec

\* Every reachable state is well typed, whatever the numbers of users,
\* connections and goroutines.
THEOREM TypeCorrect == Spec => []TypeOK
<1>1. IndInv => TypeOK
  BY DEF IndInv
<1> QED
  BY <1>1, IndInvInvariant, PTL

\* Critical sections of one mutex exclude one another and every lock is paired
\* with its unlock, on every path of every goroutine.
THEOREM MutualExclusion == Spec => []MutexOwnership
<1>1. IndInv => MutexOwnership
  BY DEF IndInv
<1> QED
  BY <1>1, IndInvInvariant, PTL

\* The registry holds exactly the live connections, each under the entry its
\* user has now (messages.go:1829, 2658).
THEOREM RegistryConsistent == Spec => []RegisteredIffLive
<1>1. IndInv => RegisteredIffLive
  BY DEF IndInv
<1> QED
  BY <1>1, IndInvInvariant, PTL

\* An entry without connections belongs to a request that has yet to append its
\* own: disconnect never leaves an empty entry behind (messages.go:2669).
THEOREM EmptyEntriesAwait == Spec => []EmptyEntryAwaitsItsRequest
<1>1. IndInv => EmptyEntryAwaitsItsRequest
  BY DEF IndInv
<1> QED
  BY <1>1, IndInvInvariant, PTL

\* A message is only queued on a connection that is registered and was not
\* disconnected, also by the deliverers that never take server.mu.
THEOREM DeliverySafe == Spec => []DeliversOnlyToRegistered
<1>1. IndInv => DeliversOnlyToRegistered
  <2> SUFFICES ASSUME IndInv, NEW d \in Deliverers, deliverer[d] = "send"
               PROVE  Live(at[d]) /\ at[d] \in connections[entry[d]]
    BY DEF DeliversOnlyToRegistered
  <2>1. at[d] \in Conns /\ entry[d] \in Conns
    BY DEF IndInv, Bound
  <2>2. at[d] \in connections[entry[d]]
    BY DEF IndInv, RangeOverRegistered
  <2> QED
    BY <2>1, <2>2 DEF IndInv, RegisteredIffLive
<1> QED
  BY <1>1, IndInvInvariant, PTL

-----------------------------------------------------------------------------
\* The reader of a connection stops once.
LEMMA GoneStays ==
  ASSUME IndInv, [Next]_vars, NEW c \in Conns, reader[c] = "gone"
  PROVE  reader'[c] = "gone"
<1> USE DEF IndInv, TypeOK, Bound, locks, registry, pumps, handlers, delivery, job
<1>1. ASSUME NEW b \in Conns, RequestStep(b) \/ WriterStep(b) \/ Break(b)
      PROVE  reader'[c] = "gone"
  BY <1>1 DEF RequestStep, Validate, RefuseUpgrade, PanicInCreate, Upgrade, Register,
              WriterStep, TakeMessage, Flush, PingFails, Break
<1>2. ASSUME NEW b \in Conns, ReaderStep(b)
      PROVE  reader'[c] = "gone"
  BY <1>2 DEF ReaderStep, ReadFails, DisconnectLockServer, DisconnectLockConn,
              DisconnectRemove
<1>3. ASSUME NEW h \in Handlers, HandlerStep(h)
      PROVE  reader'[c] = "gone"
  BY <1>3 DEF HandlerStep, ReplyUnlocked, HandlerLockConn, ReplyLocked,
              DeleteLockServer, DeleteFindsNoClient, DeleteSilently,
              DeleteFromList, DeleteReply
<1>4. ASSUME NEW d \in Deliverers, DelivererStep(d)
      PROVE  reader'[c] = "gone"
  BY <1>4 DEF DelivererStep, ReceiverAbsent, ReceiverFound, MapRace, LockClient,
              LockConn, SkipFiltered, Deliver, ReceiverServed, FinishDelivery
<1>5. ASSUME Arrival
      PROVE  reader'[c] = "gone"
  BY <1>5 DEF Arrival, ReadFrame, StartRedirect, StartPush
<1>6. CASE UNCHANGED vars
  BY <1>6 DEF vars
<1> QED
  BY <1>1, <1>2, <1>3, <1>4, <1>5, <1>6 DEF Next

\* A disconnected connection never returns to the registry.
THEOREM DisconnectIsFinal == Spec => GoneForGood
<1> DEFINE Stays(c) == /\ reader'[c] = "gone" /\ socket'[c] = "closed"
                       /\ \A k \in Conns : c \notin connections'[k]
<1>1. ASSUME IndInv, IndInv', [Next]_vars, NEW c \in Conns, reader[c] = "gone"
      PROVE  Stays(c)
  <2>1. reader'[c] = "gone"
    BY <1>1, GoneStays
  <2> QED
    BY <1>1, <2>1 DEF IndInv, Bound, RegisteredIffLive, Live
<1>2. IndInv /\ IndInv' /\ [Next]_vars
        => [\A c \in Conns : reader[c] = "gone" => Stays(c)]_vars
  BY <1>1
<1> QED
  BY <1>2, IndInvInvariant, PTL DEF Spec, GoneForGood

-----------------------------------------------------------------------------
(***************************************************************************)
(* The registry implements the map from users to sets of connections.      *)
(***************************************************************************)
endedBar == {c \in Conns : reader[c] = "gone"}

\* The steps other than Validate, Register and DisconnectRemove leave the
\* registry and the set of disconnected connections as they are.
LEMMA OtherStepsKeepDirectory ==
  ASSUME IndInv, [Next]_vars,
         \A c \in Conns : ~Validate(c) /\ ~Register(c) /\ ~DisconnectRemove(c)
  PROVE  UNCHANGED <<directoryBar, endedBar>>
<1> USE DEF IndInv, TypeOK, directoryBar, endedBar, locks, registry, pumps,
            handlers, delivery, job
<1>1. ASSUME NEW c \in Conns, RequestStep(c) \/ WriterStep(c) \/ Break(c)
      PROVE  UNCHANGED <<directoryBar, endedBar>>
  BY <1>1 DEF RequestStep, RefuseUpgrade, PanicInCreate, Upgrade,
              WriterStep, TakeMessage, Flush, PingFails, Break
<1>2. ASSUME NEW c \in Conns, ReaderStep(c)
      PROVE  UNCHANGED <<directoryBar, endedBar>>
  BY <1>2 DEF ReaderStep, ReadFails, DisconnectLockServer, DisconnectLockConn
<1>3. ASSUME NEW h \in Handlers, HandlerStep(h)
      PROVE  UNCHANGED <<directoryBar, endedBar>>
  BY <1>3 DEF HandlerStep, ReplyUnlocked, HandlerLockConn, ReplyLocked,
              DeleteLockServer, DeleteFindsNoClient, DeleteSilently,
              DeleteFromList, DeleteReply
<1>4. ASSUME NEW d \in Deliverers, DelivererStep(d)
      PROVE  UNCHANGED <<directoryBar, endedBar>>
  BY <1>4 DEF DelivererStep, ReceiverAbsent, ReceiverFound, MapRace, LockClient,
              LockConn, SkipFiltered, Deliver, ReceiverServed, FinishDelivery
<1>5. ASSUME Arrival
      PROVE  UNCHANGED <<directoryBar, endedBar>>
  BY <1>5 DEF Arrival, ReadFrame, StartRedirect, StartPush
<1>6. CASE UNCHANGED vars
  BY <1>6 DEF vars
<1> QED
  BY <1>1, <1>2, <1>3, <1>4, <1>5, <1>6 DEF Next

\* An entry created by Validate holds no connection, Register adds one
\* connection to its user's set and DisconnectRemove takes one out, together
\* with an entry that holds no other.
THEOREM RegistryImplementsDirectory == Spec => ImplementsDirectory
<1>1. Init => Directory!Init
  BY ConnsAssumption DEF Init, Directory!Init, directoryBar
<1>2. ASSUME IndInv, IndInv', [Next]_vars
      PROVE  [Directory!Next]_<<directoryBar, endedBar>>
  <2> USE ConnsAssumption DEF directoryBar, endedBar
  <2>0. /\ clients \in [Users -> Conns \cup {NoClient}]
        /\ connections \in [Conns -> SUBSET Conns]
        /\ Owner \in [Conns -> Users]
        /\ NoClient \notin Conns
    BY <1>2 DEF IndInv, TypeOK, Entries
  <2>1. ASSUME NEW u \in Users, clients[u] # NoClient
        PROVE  clients[u] \in Conns /\ Owner[clients[u]] = u
    BY <1>2, <2>1 DEF IndInv, TypeOK, Entries, EntryOfItsRequest
  <2>2. ASSUME NEW c \in Conns, Validate(c)
        PROVE  UNCHANGED <<directoryBar, endedBar>>
    <3>1. connections[c] = {}
      <4>1. \A u \in Users : clients[u] # c
        BY <1>2, <2>1, <2>2 DEF Validate, IndInv, EntryOfItsRequest
      <4> QED
        BY <1>2, <4>1 DEF IndInv, TypeOK, RegisteredIffLive
    <3>2. UNCHANGED <<connections, reader>>
      BY <2>2 DEF Validate, pumps
    <3>3. \/ clients' = clients
          \/ /\ clients[Owner[c]] = NoClient
             /\ clients' = [clients EXCEPT ![Owner[c]] = c]
      BY <2>0, <2>2 DEF Validate, EntryFor
    <3>4. directoryBar' = directoryBar
      BY <2>0, <3>1, <3>2, <3>3
    <3> QED
      BY <3>2, <3>4
  <2>3. ASSUME NEW c \in Conns, Register(c)
        PROVE  Directory!Add(c)
    <3> DEFINE k == clients[Owner[c]]
    <3>1. k \in Conns /\ reader[c] = "off"
      BY <1>2, <2>1, <2>3 DEF Register, IndInv, Bound
    <3>2. c \notin connections[k]
      BY <1>2, <3>1 DEF IndInv, RegisteredIffLive, Live
    <3>3. /\ connections' = [connections EXCEPT ![k] = @ \cup {c}]
          /\ clients' = clients
      BY <2>3 DEF Register
    <3>4. directoryBar' = [directoryBar EXCEPT ![Owner[c]] = @ \cup {c}]
      BY <2>0, <2>1, <3>1, <3>3
    <3>5. endedBar' = endedBar /\ c \notin endedBar
      BY <1>2, <2>3, <3>1 DEF Register, IndInv, TypeOK
    <3> QED
      BY <3>1, <3>2, <3>4, <3>5 DEF Directory!Add
  <2>4. ASSUME NEW c \in Conns, DisconnectRemove(c)
        PROVE  Directory!Remove(c)
    <3> DEFINE k == clients[Owner[c]]
    <3>1. k # NoClient /\ k \in Conns /\ c \in connections[k]
      BY <1>2, <2>1, <2>4 DEF DisconnectRemove, IndInv, RegisteredIffLive, Live
    <3>2. /\ connections' = [connections EXCEPT ![k] = @ \ {c}]
          /\ clients' = IF connections[k] \subseteq {c}
                        THEN [clients EXCEPT ![Owner[c]] = NoClient] ELSE clients
      <4>1. LastConnection(c) <=> connections[k] \subseteq {c}
        BY <3>1 DEF LastConnection, Without
      <4> QED
        BY <2>4, <3>1, <4>1 DEF DisconnectRemove, Without
    <3>3. directoryBar' = [directoryBar EXCEPT ![Owner[c]] = @ \ {c}]
      <4>1. CASE connections[k] \subseteq {c}
        <5>1. directoryBar[Owner[c]] \ {c} = {}
          BY <2>0, <3>1, <4>1
        <5>2. /\ clients' = [clients EXCEPT ![Owner[c]] = NoClient]
              /\ connections' = [connections EXCEPT ![k] = @ \ {c}]
          BY <3>2, <4>1
        <5>3. \A u \in Users \ {Owner[c]} : directoryBar'[u] = directoryBar[u]
          BY <2>0, <2>1, <3>1, <5>2
        <5>4. directoryBar'[Owner[c]] = {}
          BY <2>0, <5>2
        <5> QED
          BY <2>0, <5>1, <5>3, <5>4
      <4>2. CASE ~(connections[k] \subseteq {c})
        <5>1. /\ clients' = clients
              /\ connections' = [connections EXCEPT ![k] = @ \ {c}]
          BY <3>2, <4>2
        <5>2. \A u \in Users \ {Owner[c]} : directoryBar'[u] = directoryBar[u]
          BY <2>0, <2>1, <3>1, <5>1
        <5>3. directoryBar'[Owner[c]] = directoryBar[Owner[c]] \ {c}
          BY <2>0, <2>1, <3>1, <5>1
        <5> QED
          BY <2>0, <5>2, <5>3
      <4> QED
        BY <4>1, <4>2
    <3>4. endedBar' = endedBar \cup {c}
      BY <1>2, <2>4 DEF DisconnectRemove, IndInv, TypeOK
    <3> QED
      BY <3>1, <3>3, <3>4 DEF Directory!Remove
  <2> QED
    BY <1>2, <2>2, <2>3, <2>4, OtherStepsKeepDirectory DEF Directory!Next
<1> QED
  BY <1>1, <1>2, IndInvInvariant, PTL DEF Spec, ImplementsDirectory, Directory!Spec, endedBar

=============================================================================
