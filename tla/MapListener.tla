----------------------------- MODULE MapListener -----------------------------
(***************************************************************************)
(* ListenConfigMap and StopListenConfigMap of k8smanager, for one config   *)
(* map.  Each call of ListenConfigMap makes a channel, enters it in a map, *)
(* and starts an informer that puts what happens to the config map on the  *)
(* channel, and a poller that looks each second whether the config map is  *)
(* still in the map and otherwise stops the informer.  StopListenConfigMap *)
(* takes the entry out, puts a last event on its channel and closes it.    *)
(***************************************************************************)
EXTENDS Naturals, Sequences

CONSTANTS
  Room,       \* the capacity of a channel: 20 in the code
  MaxListens, \* bound: calls of ListenConfigMap
  MaxChanges  \* bound: the versions of the config map

ASSUME MapListenerAssumption == Room \in Nat \ {0} /\ MaxListens \in Nat /\ MaxChanges \in Nat \ {0}

VARIABLES
  current,  \* of the config map in Kubernetes
  entry,    \* configMapListenStatus: the channel of the config map, 0: none
  listens,  \* how many times ListenConfigMap was called
  channel,  \* what is in each channel
  closed,   \* the channels that are closed
  sent,     \* the last version that each informer has put on its channel
  pollers,  \* the pollers that still look
  running,  \* the informers that have not been stopped
  stopping, \* the channel that a StopListenConfigMap is to send on and close, or Idle
  closing,  \* it has sent
  panicked  \* a send on a closed channel has ended the process

listenerVars == <<current, entry, listens, channel, closed, sent, pollers, running, stopping,
                  closing, panicked>>

Listeners == 1 .. MaxListens

Idle == MaxListens + 1  \* no StopListenConfigMap is running

Stopped == 0  \* the last event; the others are versions of the config map

ListenerInit ==
  /\ current = 1 /\ entry = 0 /\ listens = 0 /\ stopping = Idle
  /\ channel = [i \in Listeners |-> <<>>]
  /\ sent = [i \in Listeners |-> 0]
  /\ closed = {} /\ pollers = {} /\ running = {} /\ closing = FALSE /\ panicked = FALSE

\* configMapListenMutex: StopListenConfigMap keeps it while it waits.
Unlocked == stopping = Idle /\ ~panicked

\* A second call replaces the entry of the first.
ListenConfigMap ==
  /\ Unlocked /\ listens < MaxListens
  /\ listens' = listens + 1
  /\ entry' = listens'
  /\ pollers' = pollers \cup {listens'} /\ running' = running \cup {listens'}
  /\ UNCHANGED <<current, channel, closed, closing, sent, stopping, panicked>>

Edit ==
  /\ current < MaxChanges /\ current' = current + 1
  /\ UNCHANGED <<entry, listens, channel, closed, sent, pollers, running, stopping, closing,
                 panicked>>

\* What a poller sees: any entry of the config map, not only its own.
NeverGone == FALSE

Gone == entry = 0

\* Two pollers stop an informer each.
Poll(i) ==
  /\ Unlocked /\ i \in pollers /\ Gone
  /\ pollers' = pollers \ {i} /\ running' = running \ {i}
  /\ UNCHANGED <<current, entry, listens, channel, closed, closing, sent, stopping, panicked>>

HasRoom(i) == Len(channel[i]) < Room

\* An event of the informer: it blocks while the channel is full, and panics
\* once it is closed.
Inform(i) ==
  /\ ~panicked /\ i \in running /\ sent[i] < current
  /\ IF i \in closed
     THEN panicked' = TRUE /\ UNCHANGED <<channel, sent>>
     ELSE /\ HasRoom(i)
          /\ sent' = [sent EXCEPT ![i] = current]
          /\ channel' = [channel EXCEPT ![i] = Append(@, current)]
          /\ UNCHANGED panicked
  /\ UNCHANGED <<current, entry, listens, closed, closing, pollers, running, stopping>>

\* The channel is nil when there is no entry: this waits for ever.
StopListenConfigMap ==
  /\ Unlocked
  /\ stopping' = entry /\ entry' = 0
  /\ UNCHANGED <<current, listens, channel, closed, closing, sent, pollers, running, panicked>>

\* An informer that its poller has not stopped yet may still send: while this
\* waits, between its own send and the close, and on the closed channel.
StopSends ==
  /\ stopping \in Listeners /\ ~closing /\ ~panicked /\ HasRoom(stopping)
  /\ channel' = [channel EXCEPT ![stopping] = Append(@, Stopped)]
  /\ closing' = TRUE
  /\ UNCHANGED <<current, entry, listens, closed, sent, pollers, running, stopping, panicked>>

StopCloses ==
  /\ closing /\ ~panicked
  /\ closed' = closed \cup {stopping}
  /\ stopping' = Idle /\ closing' = FALSE
  /\ UNCHANGED <<current, entry, listens, channel, sent, pollers, running, panicked>>

Receive(i) ==
  /\ ~panicked /\ channel[i] # <<>>
  /\ channel' = [channel EXCEPT ![i] = Tail(@)]
  /\ UNCHANGED <<current, entry, listens, closed, closing, sent, pollers, running, stopping, panicked>>

ListenerNext ==
  \/ ListenConfigMap \/ Edit \/ StopListenConfigMap \/ StopSends \/ StopCloses
  \/ \E i \in Listeners : Poll(i) \/ Inform(i) \/ Receive(i)

ListenerSpec == ListenerInit /\ [][ListenerNext]_listenerVars

---------------------------------------------------------------------------
Events == Stopped .. MaxChanges

ListenerTypeOK ==
  /\ current \in 1 .. MaxChanges /\ entry \in 0 .. listens /\ listens \in 0 .. MaxListens
  /\ channel \in [Listeners -> Seq(Events)]
  /\ \A i \in Listeners : Len(channel[i]) <= Room
  /\ sent \in [Listeners -> 0 .. MaxChanges]
  /\ closed \subseteq Listeners /\ pollers \subseteq Listeners /\ running \subseteq Listeners
  /\ stopping \in 0 .. Idle /\ closing \in BOOLEAN /\ panicked \in BOOLEAN
  /\ entry \notin closed

\* While nothing listens to the config map no informer goes on for ever, unless
\* its StopListenConfigMap waits with the mutex: on the nil channel of a config
\* map that nothing listened to, or on a full one that nobody reads
\* (configmap.go:208-224, 235-241).
Waiting == stopping = 0 \/ (stopping \in Listeners /\ ~closing /\ ~HasRoom(stopping))

InformersEnd ==
  entry = 0 ~> running = {} \/ entry # 0 \/ panicked \/ Waiting
=============================================================================
