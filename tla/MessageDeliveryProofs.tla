------------------------ MODULE MessageDeliveryProofs ------------------------
(***************************************************************************)
(* Proofs about the delivery of messages, for any number of pods, users    *)
(* and messages and with every fault: a message that was accepted is       *)
(* accounted for, what one pod redirects reaches the sockets of another    *)
(* pod in that order, and a cached list has few copies of a message.       *)
(***************************************************************************)
EXTENDS MessageDelivery, SequenceTheorems, FiniteSetTheorems, TLAPS

Frames == Seq(Packets) \ {<<>>}

\* A job that has not begun, or has ended, works on nothing.
Idle == \A m \in Messages : stage[m] = "new" => doing[m] = NoMessage

TypeInv == TypeOK /\ Idle

-----------------------------------------------------------------------------
(* What the code does to queues and lists *)

\* What Append does to a queue.
LEMMA AppendOne ==
  ASSUME NEW S, NEW s \in Seq(S), NEW x \in S
  PROVE  /\ Append(s, x) \in Seq(S)
         /\ DOMAIN Append(s, x) = 1 .. Len(s) + 1 /\ DOMAIN s = 1 .. Len(s)
         /\ \A i \in DOMAIN s : Append(s, x)[i] = s[i]
         /\ Append(s, x)[Len(s) + 1] = x
         /\ Elements(Append(s, x)) = Elements(s) \cup {x}
<1>1. /\ Append(s, x) \in Seq(S) /\ Len(Append(s, x)) = Len(s) + 1
      /\ \A i \in 1 .. Len(s) : Append(s, x)[i] = s[i]
      /\ Append(s, x)[Len(s) + 1] = x
      /\ DOMAIN s = 1 .. Len(s) /\ Len(s) \in Nat
  BY AppendProperties, LenProperties
<1>2. DOMAIN Append(s, x) = 1 .. Len(s) + 1
  BY <1>1, LenProperties
<1> QED
  BY <1>1, <1>2 DEF Elements

\* writePump cuts a queue into a frame and what stays (server.go:380).
LEMMA CutFrame ==
  ASSUME NEW S, NEW s \in Seq(S), NEW n \in 1 .. Len(s)
  PROVE  LET f == SubSeq(s, 1, n)
             r == SubSeq(s, n + 1, Len(s))
         IN  /\ f \in Seq(S) \ {<<>>} /\ DOMAIN f = 1 .. n
             /\ r \in Seq(S) /\ DOMAIN r = 1 .. Len(s) - n
             /\ \A i \in DOMAIN f : f[i] = s[i] /\ i \in DOMAIN s
             /\ \A i \in DOMAIN r : r[i] = s[n + i] /\ n + i \in DOMAIN s
             /\ Elements(s) = Elements(f) \cup Elements(r)
<1> DEFINE f == SubSeq(s, 1, n)
           r == SubSeq(s, n + 1, Len(s))
<1>1. Len(s) \in Nat /\ DOMAIN s = 1 .. Len(s) /\ n \in Nat /\ 1 <= n /\ n <= Len(s)
  BY LenProperties
<1>2. /\ f \in Seq(S) /\ Len(f) = n /\ DOMAIN f = 1 .. n
      /\ \A i \in 1 .. n : f[i] = s[i]
  BY <1>1
<1>3. /\ r \in Seq(S) /\ Len(r) = Len(s) - n /\ DOMAIN r = 1 .. Len(s) - n
      /\ \A i \in 1 .. Len(s) - n : r[i] = s[n + i]
  <2>1. \A i \in n + 1 .. Len(s) : s[i] \in S
    BY <1>1
  <2>2. /\ r \in Seq(S)
        /\ Len(r) = IF n + 1 <= Len(s) THEN Len(s) - (n + 1) + 1 ELSE 0
        /\ \A i \in 1 .. Len(s) - (n + 1) + 1 : r[i] = s[(n + 1) + i - 1]
    BY <1>1, <2>1, SubSeqProperties
  <2>3. Len(r) = Len(s) - n /\ \A i \in 1 .. Len(s) - n : r[i] = s[n + i]
    <3> HIDE DEF r
    <3>1. \A i \in 1 .. Len(s) - n : (n + 1) + i - 1 = n + i /\ i \in 1 .. Len(s) - (n + 1) + 1
      BY <1>1
    <3>2. Len(r) = Len(s) - n
      <4>1. CASE n + 1 <= Len(s)
        BY <1>1, <2>2, <4>1
      <4>2. CASE ~(n + 1 <= Len(s))
        <5>1. n = Len(s) /\ Len(s) - n = 0
          <6>1. \A a, b \in Nat : a <= b /\ ~(a + 1 <= b) => a = b /\ b - a = 0
            OBVIOUS
          <6> QED
            BY <1>1, <4>2, <6>1
        <5>2. Len(r) = 0
          BY <2>2, <4>2
        <5> QED
          BY <5>1, <5>2
      <4> QED
        BY <4>1, <4>2
    <3> QED
      BY <2>2, <3>1, <3>2
  <2> QED
    BY <2>2, <2>3, LenProperties
<1>4. f # <<>>
  BY <1>2
<1> HIDE DEF f, r
<1>5. ASSUME NEW i \in DOMAIN s
      PROVE  s[i] \in Elements(f) \cup Elements(r)
  <2>1. CASE i <= n
    BY <1>1, <1>2, <2>1 DEF Elements
  <2>2. CASE i > n
    <3>1. i - n \in DOMAIN r /\ n + (i - n) = i
      BY <1>1, <1>3, <2>2
    <3>2. r[i - n] = s[i]
      BY <1>3, <3>1
    <3> QED
      BY <3>1, <3>2 DEF Elements
  <2> QED
    BY <1>1, <2>1, <2>2
<1>6. ASSUME NEW i \in DOMAIN f
      PROVE  f[i] \in Elements(s) /\ i \in DOMAIN s
  BY <1>1, <1>2 DEF Elements
<1>7. ASSUME NEW i \in DOMAIN r
      PROVE  r[i] \in Elements(s) /\ n + i \in DOMAIN s
  BY <1>1, <1>3 DEF Elements
<1>8. Elements(s) = Elements(f) \cup Elements(r)
  BY <1>5, <1>6, <1>7 DEF Elements
<1> QED
  BY <1>2, <1>3, <1>4, <1>6, <1>7, <1>8 DEF f, r

\* What the reader of a link takes and what it leaves (server.go:496).
LEMMA TakeFirst ==
  ASSUME NEW S, NEW s \in Seq(S), s # <<>>
  PROVE  /\ Head(s) \in S /\ Tail(s) \in Seq(S)
         /\ 1 \in DOMAIN s /\ s[1] = Head(s)
         /\ \A i \in DOMAIN Tail(s) : Tail(s)[i] = s[i + 1] /\ i + 1 \in DOMAIN s
         /\ Elements(s) = {Head(s)} \cup Elements(Tail(s))
<1>1. /\ Head(s) \in S /\ Tail(s) \in Seq(S) /\ Head(s) = s[1]
      /\ Len(Tail(s)) = Len(s) - 1 /\ \A i \in 1 .. Len(Tail(s)) : Tail(s)[i] = s[i + 1]
      /\ DOMAIN s = 1 .. Len(s) /\ DOMAIN Tail(s) = 1 .. Len(Tail(s))
      /\ Len(s) \in Nat \ {0}
  BY HeadTailProperties, LenProperties, EmptySeq
<1>2. ASSUME NEW i \in DOMAIN s
      PROVE  s[i] \in {Head(s)} \cup Elements(Tail(s))
  <2>1. CASE i = 1
    BY <1>1, <2>1
  <2>2. CASE i # 1
    <3>1. i - 1 \in DOMAIN Tail(s) /\ (i - 1) + 1 = i
      BY <1>1, <2>2
    <3> QED
      BY <1>1, <3>1 DEF Elements
  <2> QED
    BY <2>1, <2>2
<1>3. ASSUME NEW i \in DOMAIN Tail(s)
      PROVE  Tail(s)[i] = s[i + 1] /\ i + 1 \in DOMAIN s
  BY <1>1
<1>4. 1 \in DOMAIN s
  BY <1>1
<1> QED
  BY <1>1, <1>2, <1>3, <1>4 DEF Elements

\* The messages of some frames, and those of a link whose channel is lost as well.
LEMMA MessagesThere ==
  ASSUME NEW fs \in Seq(Seq(Packets))
  PROVE  /\ MessagesOf(fs) \subseteq Messages
         /\ \A f \in Elements(fs) : \A x \in Elements(f) : x.msg \in MessagesOf(fs)
<1>1. \A i \in DOMAIN fs : fs[i] \in Seq(Packets)
  BY LenProperties
<1>2. \A i \in DOMAIN fs : \A j \in DOMAIN fs[i] : fs[i][j] \in Packets
  BY <1>1, LenProperties
<1>3. MessagesOf(fs) \subseteq Messages
  BY <1>2 DEF MessagesOf, Packets
<1>4. \A f \in Elements(fs) : \A x \in Elements(f) : x.msg \in MessagesOf(fs)
  BY DEF MessagesOf, Elements
<1> QED
  BY <1>3, <1>4

\* A link that fails loses its channel and its wire, and nothing else.
LEMMA LostWithLink ==
  ASSUME NEW c \in Seq(Packets), NEW w \in Seq(Frames)
  PROVE  /\ MessagesOf(<<c>> \o w) \subseteq Messages
         /\ \A x \in Elements(c) : x.msg \in MessagesOf(<<c>> \o w)
         /\ \A f \in Elements(w) : \A x \in Elements(f) : x.msg \in MessagesOf(<<c>> \o w)
<1> DEFINE fs == <<c>> \o w
<1>1. w \in Seq(Seq(Packets)) /\ <<c>> \in Seq(Seq(Packets)) /\ Len(<<c>>) = 1
  BY SeqMonotonic DEF Frames
<1>2. /\ fs \in Seq(Seq(Packets)) /\ Len(fs) = 1 + Len(w)
      /\ \A i \in 1 .. 1 + Len(w) : fs[i] = IF i <= 1 THEN <<c>>[i] ELSE w[i - 1]
  BY <1>1, ConcatProperties
<1>3. /\ DOMAIN fs = 1 .. 1 + Len(w) /\ DOMAIN w = 1 .. Len(w) /\ Len(w) \in Nat
  BY <1>1, <1>2, LenProperties
<1> HIDE DEF fs
<1>4. c \in Elements(fs)
  <2>1. 1 \in DOMAIN fs /\ fs[1] = c
    BY <1>2, <1>3
  <2> QED
    BY <2>1 DEF Elements
<1>5. ASSUME NEW i \in DOMAIN w
      PROVE  w[i] \in Elements(fs)
  <2>1. i + 1 \in DOMAIN fs /\ ~(i + 1 <= 1) /\ (i + 1) - 1 = i
    BY <1>3
  <2>2. fs[i + 1] = w[i]
    BY <1>2, <1>3, <2>1
  <2> QED
    BY <2>1, <2>2 DEF Elements
<1>6. Elements(w) \subseteq Elements(fs)
  BY <1>5 DEF Elements
<1> QED
  BY <1>2, <1>4, <1>6, MessagesThere DEF fs

-----------------------------------------------------------------------------
(* Types *)

\* The types hold when the pods start.
LEMMA InitTypeInv == Init => TypeInv
<1> SUFFICES ASSUME Init PROVE TypeInv
  OBVIOUS
<1>1. \A S : <<>> \in Seq(S)
  BY EmptySeq
<1> QED
  BY <1>1, DeliveryAssumption DEF Init, TypeInv, TypeOK, Idle, Jobs

\* Every step keeps the types.
LEMMA NextTypeInv == TypeInv /\ [Next]_vars => TypeInv'
<1> SUFFICES ASSUME TypeInv, [Next]_vars
             PROVE  TypeInv'
  OBVIOUS
<1> USE DeliveryAssumption
    DEF TypeInv, TypeOK, Idle, Jobs, mesh, request, job, cache, history
<1>1. ASSUME NEW p \in Pods, NEW u \in Users, Connect(p, u) \/ Disconnect(p, u)
      PROVE  TypeInv'
  <2>1. online' \in [Pods -> SUBSET Users]
    <3>1. CASE Connect(p, u)
      BY <3>1 DEF Connect
    <3>2. CASE Disconnect(p, u)
      BY <3>2 DEF Disconnect
    <3> QED
      BY <1>1, <3>1, <3>2
  <2>2. UNCHANGED <<mesh, request, inbox, job, cache, history>>
    BY <1>1 DEF Connect, Disconnect
  <2> QED
    BY <2>1, <2>2
<1>2. ASSUME NEW m \in Messages, Redirect(m)
      PROVE  TypeInv'
  <2> DEFINE p == Origin[m]
             success == Receivers[m] \cap online[p]
             rest == Remaining(Receivers[m], success)
  <2>1. [msg |-> m, target |-> rest] \in Packets
    BY DEF Packets, Remaining
  <2>2. \A pq \in Pods \X Pods :
          SendTo(channel[pq], [msg |-> m, target |-> rest]) \in Seq(Packets)
    BY <2>1, AppendOne DEF SendTo
  <2>3. channel' \in [Pods \X Pods -> Seq(Packets)]
    BY <1>2, <2>2 DEF Redirect
  <2>4. inbox' \in [Pods -> [Users -> Seq(Messages)]]
    BY <1>2, AppendOne DEF Redirect
  <2>5. sent' \in [Pods -> Seq(Messages)]
    BY <1>2, AppendOne DEF Redirect
  <2>6. target' \in [Messages -> SUBSET Users]
    BY <1>2 DEF Redirect, Remaining
  <2>7. dropped' \subseteq Messages
    BY <1>2 DEF Redirect
  <2>8. /\ stage' \in [Messages -> {"new", "caching", "sent", "stored", "failed"}]
        /\ Idle'
        /\ UNCHANGED <<online, links, wire, job, cache, stale>>
    BY <1>2 DEF Redirect
  <2> QED
    BY <2>3, <2>4, <2>5, <2>6, <2>7, <2>8
<1>3. ASSUME NEW m \in Messages, Pull(m)
      PROVE  TypeInv'
  BY <1>3 DEF Pull
<1>4. ASSUME NEW m \in Messages, PullDone(m)
      PROVE  TypeInv'
  BY <1>4 DEF PullDone
<1>5. ASSUME NEW m \in Messages, Store(m)
      PROVE  TypeInv'
  BY <1>5 DEF Store
<1>6. ASSUME NEW pq \in Pods \X Pods, WritePump(pq)
      PROVE  TypeInv'
  <2>1. PICK n \in 1 .. Len(channel[pq]) :
          /\ wire' = [wire EXCEPT ![pq] = Append(@, SubSeq(channel[pq], 1, n))]
          /\ channel' = [channel EXCEPT ![pq] = SubSeq(@, n + 1, Len(@))]
    BY <1>6 DEF WritePump, FrameSizes
  <2>2. /\ SubSeq(channel[pq], 1, n) \in Frames
        /\ SubSeq(channel[pq], n + 1, Len(channel[pq])) \in Seq(Packets)
    <3>1. channel[pq] \in Seq(Packets)
      OBVIOUS
    <3>2. SubSeq(channel[pq], 1, n) \in Seq(Packets) \ {<<>>}
      BY ONLY <3>1, CutFrame, n \in 1 .. Len(channel[pq])
    <3>3. SubSeq(channel[pq], n + 1, Len(channel[pq])) \in Seq(Packets)
      BY ONLY <3>1, CutFrame, n \in 1 .. Len(channel[pq])
    <3> QED
      BY <3>2, <3>3 DEF Frames
  <2>3. Append(wire[pq], SubSeq(channel[pq], 1, n)) \in Seq(Frames)
    BY <2>2, AppendOne DEF Frames
  <2>4. UNCHANGED <<online, links, request, inbox, job, cache, history>>
    BY <1>6 DEF WritePump
  <2> QED
    BY <2>1, <2>2, <2>3, <2>4 DEF Frames
<1>7. ASSUME NEW pq \in Pods \X Pods, LinkFails(pq)
      PROVE  TypeInv'
  <2>1. channel[pq] \in Seq(Packets) /\ wire[pq] \in Seq(Frames)
    BY DEF Frames
  <2>2. MessagesOf(<<channel[pq]>> \o wire[pq]) \subseteq Messages
    BY <2>1, LostWithLink
  <2>3. <<>> \in Seq(Packets) /\ <<>> \in Seq(Frames)
    BY EmptySeq
  <2> QED
    BY <1>7, <2>2, <2>3 DEF LinkFails, Frames
<1>8. ASSUME NEW pq \in Pods \X Pods, LinkRestored(pq)
      PROVE  TypeInv'
  BY <1>8 DEF LinkRestored
<1>9. ASSUME NEW p \in Pods, NEW q \in Pods, HandleBroadcast(p, q)
      PROVE  TypeInv'
  <2> DEFINE frame == Head(wire[<<p, q>>])
  <2>1. /\ frame \in Frames /\ Tail(wire[<<p, q>>]) \in Seq(Frames)
        /\ Len(frame) = 1
    BY <1>9, TakeFirst DEF HandleBroadcast, Decodes, Frames
  <2>2. frame[1] \in Packets
    BY <2>1 DEF Frames
  <2> HIDE DEF frame
  <2>3. /\ wire' = [wire EXCEPT ![<<p, q>>] = Tail(@)]
        /\ doing' = [doing EXCEPT ![q] = frame[1].msg]
        /\ todo' = [todo EXCEPT ![q] = frame[1].target]
        /\ UNCHANGED <<online, links, channel, request, inbox, writing, snapshot,
                       cache, history>>
    BY <1>9 DEF HandleBroadcast, frame
  <2>4. frame[1].msg \in Messages /\ frame[1].target \in SUBSET Users
    BY <2>2 DEF Packets
  <2>5. /\ wire' \in [Pods \X Pods -> Seq(Frames)] /\ doing' \in [Jobs -> Messages \cup {NoMessage}]
        /\ todo' \in [Jobs -> SUBSET Users]
    BY <2>1, <2>3, <2>4 DEF Frames
  <2>6. \A j \in Jobs : doing'[j] = NoMessage => todo'[j] = {} /\ writing'[j] = NoUser
    BY <2>3, <2>4
  <2>7. Idle'
    BY <2>3, <2>4
  <2> QED
    BY <2>3, <2>5, <2>6, <2>7 DEF Frames
<1>10. ASSUME NEW p \in Pods, NEW q \in Pods, DropFrame(p, q)
       PROVE  TypeInv'
  <2>1. /\ Head(wire[<<p, q>>]) \in Seq(Packets) /\ Tail(wire[<<p, q>>]) \in Seq(Frames)
    BY <1>10, TakeFirst DEF DropFrame, Frames
  <2>2. <<Head(wire[<<p, q>>])>> \in Seq(Seq(Packets))
    BY <2>1
  <2>3. MessagesOf(<<Head(wire[<<p, q>>])>>) \subseteq Messages
    BY <2>2, MessagesThere
  <2> QED
    BY <1>10, <2>1, <2>3 DEF DropFrame, Frames
<1>11. ASSUME NEW j \in Jobs, NEW u \in Users, DeliverRemote(j, u)
       PROVE  TypeInv'
  <2>1. doing[j] \in Messages /\ j \in Pods
    BY <1>11 DEF DeliverRemote
  <2>2. inbox' \in [Pods -> [Users -> Seq(Messages)]]
    BY <1>11, <2>1, AppendOne DEF DeliverRemote
  <2>3. todo' \in [Jobs -> SUBSET Users] /\ \A k \in Jobs : todo'[k] \subseteq todo[k]
    BY <1>11 DEF DeliverRemote, Take
  <2> QED
    BY <1>11, <2>2, <2>3 DEF DeliverRemote
<1>12. ASSUME NEW j \in Jobs, NEW u \in Users, CacheGet(j, u)
       PROVE  TypeInv'
  <2>1. doing[j] # NoMessage
    BY <1>12 DEF CacheGet
  <2>2. todo' \in [Jobs -> SUBSET Users] /\ \A k \in Jobs : todo'[k] \subseteq todo[k]
    BY <1>12 DEF CacheGet, Take
  <2>3. snapshot' \in [Jobs -> Seq(Messages)]
    <3>1. userMessages[u] \in Seq(Messages) /\ <<>> \in Seq(Messages)
      BY EmptySeq
    <3>2. \E x \in Seq(Messages) : snapshot' = [snapshot EXCEPT ![j] = x]
      BY <1>12, <3>1 DEF CacheGet
    <3> QED
      BY <3>2
  <2> QED
    BY <1>12, <2>1, <2>2, <2>3 DEF CacheGet
<1>13. ASSUME NEW j \in Jobs, CacheSet(j)
       PROVE  TypeInv'
  <2>1. /\ writing[j] \in Users /\ doing[j] \in Messages
        /\ Append(snapshot[j], doing[j]) \in Seq(Messages)
    BY <1>13, AppendOne DEF CacheSet
  <2>2. /\ userMessages' \in [Users -> Seq(Messages)] /\ snapshot' \in [Jobs -> Seq(Messages)]
        /\ stale' \subseteq Users
    BY <1>13, <2>1, EmptySeq DEF CacheSet, StaleIf
  <2> QED
    BY <1>13, <2>1, <2>2 DEF CacheSet
<1>14. ASSUME NEW j \in Jobs, CacheSetFails(j)
       PROVE  TypeInv'
  <2>1. writing[j] \in Users /\ doing[j] \in Messages
    BY <1>14 DEF CacheSetFails
  <2>2. snapshot' \in [Jobs -> Seq(Messages)]
    BY <1>14, EmptySeq DEF CacheSetFails
  <2>3. CASE j \in Pods
    BY <1>14, <2>1, <2>2, <2>3 DEF CacheSetFails
  <2>4. CASE j \notin Pods
    <3>1. /\ stage' = [stage EXCEPT ![j] = "failed"] /\ j \in Messages
          /\ doing' = [doing EXCEPT ![j] = NoMessage]
          /\ todo' = [todo EXCEPT ![j] = {}]
          /\ writing' = [writing EXCEPT ![j] = NoUser]
          /\ dropped' = dropped \cup {doing[j]}
          /\ UNCHANGED <<online, mesh, target, inbox, cache, sent, stale>>
      BY <1>14, <2>4 DEF CacheSetFails
    <3> QED
      BY <2>1, <2>2, <3>1
  <2> QED
    BY <2>3, <2>4
<1>15. ASSUME NEW q \in Pods, BroadcastDone(q)
       PROVE  TypeInv'
  BY <1>15 DEF BroadcastDone, Unlock
<1>16. ASSUME NEW u \in Users, FetchGet(u)
       PROVE  TypeInv'
  BY <1>16 DEF FetchGet
<1>17. ASSUME NEW u \in Users, FetchDel(u)
       PROVE  TypeInv'
  <2>1. Elements(taken[u]) \subseteq Messages
    BY LenProperties DEF Elements
  <2>2. /\ taken' \in [Users -> Seq(Messages)] /\ userMessages' \in [Users -> Seq(Messages)]
        /\ stale' \subseteq Users /\ fetched' \in [Users -> SUBSET Messages]
        /\ fetching' \subseteq Users
    <3>1. <<>> \in Seq(Messages)
      BY EmptySeq
    <3>2. taken' \in [Users -> Seq(Messages)] /\ fetching' \subseteq Users
      BY <1>17, <3>1 DEF FetchDel
    <3>3. CASE UNCHANGED <<userMessages, fetched, stale>>
      BY <3>2, <3>3
    <3>4. CASE /\ userMessages' = [userMessages EXCEPT ![u] = <<>>]
               /\ fetched' = [fetched EXCEPT ![u] = @ \cup Elements(taken[u])]
               /\ stale' = StaleIf(taken[u], u)
      BY <2>1, <3>1, <3>2, <3>4 DEF StaleIf
    <3> QED
      BY <1>17, <3>3, <3>4 DEF FetchDel
  <2> QED
    BY <1>17, <2>2 DEF FetchDel
<1>18. CASE UNCHANGED vars
  BY <1>18 DEF vars
<1> QED
  BY <1>1, <1>2, <1>3, <1>4, <1>5, <1>6, <1>7, <1>8, <1>9, <1>10, <1>11, <1>12,
     <1>13, <1>14, <1>15, <1>16, <1>17, <1>18
     DEF Next, SendStep, JobStep, Receive

\* The types hold always, and a request that has not begun has no job (messages.go:185).
THEOREM DeliveryTypeInvariant == Spec => []TypeInv
BY InitTypeInv, NextTypeInv, PTL DEF Spec

\* Every variable of the delivery stays in its type; a pod whose ServerInstance.mu
\* is free works on nothing (server.go:655).
THEOREM DeliveryTypeCorrect == Spec => []TypeOK
  BY DeliveryTypeInvariant, PTL DEF TypeInv

-----------------------------------------------------------------------------
(* Whereabouts *)

\* The excuses and the places of Accounted.
Located(m, u) ==
  \/ OnASocket(m, u) \/ InTransit(m, u) \/ InHand(m, u)
  \/ InTheList(m, u) \/ m \in fetched[u]
  \/ m \in dropped \/ u \in stale

\* Whether a message is on its way, without the indices of InTransit.
Queued(pq, m, u) == \E x \in Elements(channel[pq]) : IsFor(x, m, u)
OnWire(pq, m, u) == \E f \in Elements(wire[pq]) : \E x \in Elements(f) : IsFor(x, m, u)

\* In transit is on the channel or on the wire of some link.
LEMMA InTransitSomewhere ==
  ASSUME NEW m, NEW u
  PROVE  /\ InTransit(m, u) <=>
              \E pq \in Pods \X Pods : Queued(pq, m, u) \/ OnWire(pq, m, u)
         /\ InTransit(m, u)' <=>
              \E pq \in Pods \X Pods : Queued(pq, m, u)' \/ OnWire(pq, m, u)'
BY DEF InTransit, Queued, OnWire, Elements

\* A message that is somewhere for a receiver stays so, step after step.
LEMMA StaysLocated ==
  ASSUME TypeInv, [Next]_vars, NEW m \in Messages, NEW u \in Users, Located(m, u)
  PROVE  Located(m, u)'
<1>0. /\ InTransit(m, u) <=>
           \E pq \in Pods \X Pods : Queued(pq, m, u) \/ OnWire(pq, m, u)
      /\ InTransit(m, u)' <=>
           \E pq \in Pods \X Pods : Queued(pq, m, u)' \/ OnWire(pq, m, u)'
  BY InTransitSomewhere
<1> USE DeliveryAssumption DEF TypeInv, TypeOK, Jobs, mesh, request, job, cache, history
<1>1. CASE UNCHANGED <<inbox, mesh, doing, todo, writing, userMessages, fetched, dropped, stale>>
  BY <1>1 DEF Located, OnASocket, InTransit, InHand, InTheList
<1>2. ASSUME NEW n \in Messages, Redirect(n)
      PROVE  Located(m, u)'
  <2> DEFINE packet == [msg |-> n, target |-> Remaining(Receivers[n], Receivers[n] \cap online[Origin[n]])]
  <2>1. \A p \in Pods : Elements(inbox[p][u]) \subseteq Elements(inbox'[p][u])
    <3> SUFFICES ASSUME NEW p \in Pods
                 PROVE  Elements(inbox[p][u]) \subseteq Elements(inbox'[p][u])
      OBVIOUS
    <3>1. inbox'[p][u] \in {inbox[p][u], Append(inbox[p][u], n)}
      BY <1>2 DEF Redirect
    <3>2. Elements(Append(inbox[p][u], n)) = Elements(inbox[p][u]) \cup {n}
      BY AppendOne
    <3> QED
      BY <3>1, <3>2
  <2>2. \A pq \in Pods \X Pods : Elements(channel[pq]) \subseteq Elements(channel'[pq])
    <3> SUFFICES ASSUME NEW pq \in Pods \X Pods
                 PROVE  Elements(channel[pq]) \subseteq Elements(channel'[pq])
      OBVIOUS
    <3>1. channel'[pq] \in {channel[pq], Append(channel[pq], packet)}
      BY <1>2 DEF Redirect, SendTo
    <3>2. packet \in Packets
      BY DEF Packets, Remaining
    <3>3. channel[pq] \in Seq(Packets)
      OBVIOUS
    <3> HIDE DEF packet
    <3>4. Elements(Append(channel[pq], packet)) = Elements(channel[pq]) \cup {packet}
      BY <3>2, <3>3, AppendOne
    <3> QED
      BY <3>1, <3>4
  <2>3. /\ dropped \subseteq dropped'
        /\ UNCHANGED <<online, links, wire, job, cache, stale>>
    BY <1>2 DEF Redirect
  <2>4. OnASocket(m, u) => OnASocket(m, u)'
    BY <2>1 DEF OnASocket
  <2>5. InTransit(m, u) => InTransit(m, u)'
    BY <2>2, <2>3, <1>0 DEF Queued, OnWire
  <2> QED
    BY <2>3, <2>4, <2>5 DEF Located, InHand, InTheList
<1>3. ASSUME NEW n \in Messages, Pull(n)
      PROVE  Located(m, u)'
  BY <1>3 DEF Pull, Idle, Located, OnASocket, InTransit, InHand, InTheList
<1>4. ASSUME NEW n \in Messages, PullDone(n)
      PROVE  Located(m, u)'
  BY <1>4 DEF PullDone, Located, OnASocket, InTransit, InHand, InTheList
<1>5. ASSUME NEW pq \in Pods \X Pods, WritePump(pq)
      PROVE  Located(m, u)'
  <2>1. PICK n \in 1 .. Len(channel[pq]) :
          /\ wire' = [wire EXCEPT ![pq] = Append(@, SubSeq(channel[pq], 1, n))]
          /\ channel' = [channel EXCEPT ![pq] = SubSeq(channel[pq], n + 1, Len(channel[pq]))]
    BY <1>5 DEF WritePump, FrameSizes
  <2> DEFINE f == SubSeq(channel[pq], 1, n)
             r == SubSeq(channel[pq], n + 1, Len(channel[pq]))
  <2>2. f \in Frames /\ Elements(channel[pq]) = Elements(f) \cup Elements(r)
    <3>1. channel[pq] \in Seq(Packets)
      OBVIOUS
    <3>2. /\ f \in Seq(Packets) \ {<<>>}
          /\ Elements(channel[pq]) = Elements(f) \cup Elements(r)
      BY ONLY <3>1, CutFrame, n \in 1 .. Len(channel[pq])
    <3> QED
      BY <3>2 DEF Frames
  <2> HIDE DEF f, r
  <2>3. Elements(Append(wire[pq], f)) = Elements(wire[pq]) \cup {f}
    <3>1. wire[pq] \in Seq(Frames)
      BY DEF Frames
    <3> QED
      BY <2>2, <3>1, AppendOne
  <2>4. InTransit(m, u) => InTransit(m, u)'
    <3>1. Queued(pq, m, u) => Queued(pq, m, u)' \/ OnWire(pq, m, u)'
      BY <2>1, <2>2, <2>3 DEF Queued, OnWire, f, r
    <3>2. OnWire(pq, m, u) => OnWire(pq, m, u)'
      BY <2>1, <2>2, <2>3 DEF OnWire, f
    <3>3. ASSUME NEW o \in Pods \X Pods, o # pq
          PROVE  (Queued(o, m, u) => Queued(o, m, u)') /\ (OnWire(o, m, u) => OnWire(o, m, u)')
      BY <2>1, <3>3 DEF Queued, OnWire
    <3> QED
      BY <3>1, <3>2, <3>3, <1>0
  <2>5. UNCHANGED <<inbox, doing, todo, writing, userMessages, fetched, dropped, stale>>
    BY <1>5 DEF WritePump
  <2> QED
    BY <2>4, <2>5 DEF Located, OnASocket, InHand, InTheList
<1>6. ASSUME NEW pq \in Pods \X Pods, LinkFails(pq)
      PROVE  Located(m, u)'
  <2>1. channel[pq] \in Seq(Packets) /\ wire[pq] \in Seq(Frames)
    BY DEF Frames
  <2>2. Queued(pq, m, u) \/ OnWire(pq, m, u) => m \in dropped'
    <3> DEFINE lost == MessagesOf(<<channel[pq]>> \o wire[pq])
    <3>1. /\ \A x \in Elements(channel[pq]) : x.msg \in lost
          /\ \A f \in Elements(wire[pq]) : \A x \in Elements(f) : x.msg \in lost
      BY <2>1, LostWithLink
    <3>2. dropped' = dropped \cup lost
      BY <1>6 DEF LinkFails
    <3> HIDE DEF lost
    <3> QED
      BY <3>1, <3>2 DEF Queued, OnWire, IsFor
  <2>3. ASSUME NEW o \in Pods \X Pods, o # pq
        PROVE  (Queued(o, m, u) => Queued(o, m, u)') /\ (OnWire(o, m, u) => OnWire(o, m, u)')
    BY <1>6, <2>3 DEF LinkFails, Queued, OnWire
  <2>4. InTransit(m, u) => InTransit(m, u)' \/ m \in dropped'
    BY <2>2, <2>3, <1>0
  <2>5. dropped \subseteq dropped' /\ UNCHANGED <<inbox, doing, todo, writing, userMessages, fetched, stale>>
    BY <1>6 DEF LinkFails
  <2> QED
    BY <2>4, <2>5 DEF Located, OnASocket, InHand, InTheList
<1>7. ASSUME NEW p \in Pods, NEW q \in Pods, HandleBroadcast(p, q) \/ DropFrame(p, q)
      PROVE  Located(m, u)'
  <2> DEFINE pq == <<p, q>>
             frame == Head(wire[pq])
  <2>1. /\ frame \in Frames
        /\ Elements(wire[pq]) = {frame} \cup Elements(Tail(wire[pq]))
        /\ pq \in Pods \X Pods
    <3>1. pq \in Pods \X Pods /\ wire[pq] \in Seq(Frames) /\ wire[pq] # <<>>
      BY <1>7 DEF HandleBroadcast, DropFrame, Frames
    <3> QED
      BY <3>1, TakeFirst
  <2> HIDE DEF pq, frame
  <2>2. wire' = [wire EXCEPT ![pq] = Tail(@)] /\ UNCHANGED channel
    BY <1>7 DEF HandleBroadcast, DropFrame, pq
  <2>3. OnWire(pq, m, u) => OnWire(pq, m, u)' \/ \E x \in Elements(frame) : IsFor(x, m, u)
    BY <2>1, <2>2 DEF OnWire
  <2>4. ASSUME NEW o \in Pods \X Pods
        PROVE  /\ Queued(o, m, u) => Queued(o, m, u)'
               /\ o # pq /\ OnWire(o, m, u) => OnWire(o, m, u)'
    BY <2>2 DEF Queued, OnWire
  <2>5. InTransit(m, u) => InTransit(m, u)' \/ \E x \in Elements(frame) : IsFor(x, m, u)
    BY <2>1, <2>3, <2>4, <1>0
  <2>6. CASE HandleBroadcast(p, q)
    <3>1. frame \in Seq(Packets) /\ Len(frame) = 1
      BY <2>1, <2>6 DEF Frames, HandleBroadcast, Decodes, pq, frame
    <3>2. Elements(frame) = {frame[1]}
      <4>1. DOMAIN frame = 1 .. 1
        BY <3>1, LenProperties
      <4> QED
        BY <4>1 DEF Elements
    <3>3. (\E x \in Elements(frame) : IsFor(x, m, u)) => InHand(m, u)'
      BY <2>6, <3>2 DEF HandleBroadcast, IsFor, InHand, pq, frame
    <3>4. InHand(m, u) => InHand(m, u)'
      <4>1. /\ doing[q] = NoMessage /\ writing' = writing /\ q \in Jobs
            /\ \A j \in Jobs \ {q} : doing'[j] = doing[j] /\ todo'[j] = todo[j]
        BY <2>6 DEF HandleBroadcast, MuFree, Jobs
      <4> QED
        BY <4>1 DEF InHand
    <3>5. UNCHANGED <<inbox, userMessages, fetched, dropped, stale>>
      BY <2>6 DEF HandleBroadcast
    <3> QED
      BY <2>5, <3>3, <3>4, <3>5 DEF Located, OnASocket, InTheList
  <2>7. CASE DropFrame(p, q)
    <3>1. <<frame>> \in Seq(Seq(Packets)) /\ Elements(<<frame>>) = {frame}
      <4>1. frame \in Seq(Packets)
        BY <2>1 DEF Frames
      <4> QED
        BY <4>1 DEF Elements
    <3> DEFINE lost == MessagesOf(<<frame>>)
    <3>2. \A x \in Elements(frame) : x.msg \in lost
      BY <3>1, MessagesThere
    <3>3. dropped' = dropped \cup lost
      BY <2>7 DEF DropFrame, pq, frame
    <3> HIDE DEF lost
    <3>4. UNCHANGED <<inbox, doing, todo, writing, userMessages, fetched, stale>>
      BY <2>7 DEF DropFrame
    <3>5. InTransit(m, u) => InTransit(m, u)' \/ m \in dropped'
      BY <2>5, <3>2, <3>3 DEF IsFor
    <3> QED
      BY <3>3, <3>4, <3>5 DEF Located, OnASocket, InHand, InTheList
  <2> QED
    BY <1>7, <2>6, <2>7
<1>8. ASSUME NEW j \in Jobs, NEW v \in Users, DeliverRemote(j, v)
      PROVE  Located(m, u)'
  <2>1. doing[j] \in Messages /\ j \in Pods
    BY <1>8 DEF DeliverRemote
  <2>2. /\ inbox' = [inbox EXCEPT ![j][v] = Append(@, doing[j])]
        /\ todo' = [todo EXCEPT ![j] = @ \ {v}]
        /\ UNCHANGED <<mesh, doing, writing, userMessages, fetched, dropped, stale>>
    BY <1>8 DEF DeliverRemote, Take
  <2>3. Elements(Append(inbox[j][v], doing[j])) = Elements(inbox[j][v]) \cup {doing[j]}
    BY <2>1, AppendOne
  <2>4. \A p \in Pods : Elements(inbox[p][u]) \subseteq Elements(inbox'[p][u])
    BY <2>1, <2>2, <2>3
  <2>5. OnASocket(m, u) => OnASocket(m, u)'
    BY <2>4 DEF OnASocket
  <2>6. doing[j] \in Elements(inbox'[j][v])
    BY <2>1, <2>2, <2>3
  <2>7. InHand(m, u) => InHand(m, u)' \/ OnASocket(m, u)'
    <3>1. \A k \in Jobs : todo'[k] = todo[k] \/ (k = j /\ todo'[k] = todo[k] \ {v})
      BY <2>2
    <3>2. CASE u = v /\ doing[j] = m
      BY <2>1, <2>6, <3>2 DEF OnASocket
    <3>3. CASE ~(u = v /\ doing[j] = m)
      BY <2>2, <3>1, <3>3 DEF InHand
    <3> QED
      BY <3>2, <3>3
  <2> QED
    BY <2>2, <2>5, <2>7 DEF Located, InTransit, InTheList
<1>9. ASSUME NEW j \in Jobs, NEW v \in Users, CacheGet(j, v)
      PROVE  Located(m, u)'
  <2>1. /\ writing[j] = NoUser
        /\ todo' = [todo EXCEPT ![j] = @ \ {v}] /\ writing' = [writing EXCEPT ![j] = v]
        /\ UNCHANGED <<inbox, mesh, doing, userMessages, fetched, dropped, stale>>
    BY <1>9 DEF CacheGet, Take
  <2>2. InHand(m, u) => InHand(m, u)'
    BY <2>1 DEF InHand
  <2> QED
    BY <2>1, <2>2 DEF Located, OnASocket, InTransit, InTheList
<1>10. ASSUME NEW j \in Jobs, CacheSet(j)
       PROVE  Located(m, u)'
  <2> DEFINE v == writing[j]
             new == Append(snapshot[j], doing[j])
  <2>1. v \in Users /\ doing[j] \in Messages
    BY <1>10 DEF CacheSet
  <2>2. Elements(new) = Elements(snapshot[j]) \cup {doing[j]}
    BY <2>1, AppendOne
  <2>3. /\ userMessages' = [userMessages EXCEPT ![v] = new]
        /\ writing' = [writing EXCEPT ![j] = NoUser]
        /\ stale' = StaleIf(snapshot[j], v)
        /\ UNCHANGED <<inbox, mesh, doing, todo, fetched, dropped>>
    BY <1>10 DEF CacheSet
  <2> HIDE DEF new
  <2>4. InTheList(m, u) => InTheList(m, u)' \/ u \in stale'
    BY <2>1, <2>2, <2>3 DEF InTheList, StaleIf
  <2>5. InHand(m, u) => InHand(m, u)' \/ InTheList(m, u)'
    BY <2>1, <2>2, <2>3 DEF InHand, InTheList
  <2>6. stale \subseteq stale'
    BY <2>3 DEF StaleIf
  <2> QED
    BY <2>3, <2>4, <2>5, <2>6 DEF Located, OnASocket, InTransit
<1>11. ASSUME NEW j \in Jobs, CacheSetFails(j)
       PROVE  Located(m, u)'
  <2>1. /\ dropped' = dropped \cup {doing[j]}
        /\ \A k \in Jobs \ {j} : doing'[k] = doing[k] /\ todo'[k] = todo[k] /\ writing'[k] = writing[k]
        /\ UNCHANGED <<inbox, mesh, userMessages, fetched, stale>>
    BY <1>11 DEF CacheSetFails
  <2>2. InHand(m, u) => InHand(m, u)' \/ m \in dropped'
    BY <2>1 DEF InHand
  <2> QED
    BY <2>1, <2>2 DEF Located, OnASocket, InTransit, InTheList
<1>12. ASSUME NEW q \in Pods, BroadcastDone(q)
       PROVE  Located(m, u)'
  BY <1>12 DEF BroadcastDone, Unlock, Located, OnASocket, InTransit, InHand, InTheList
<1>13. ASSUME NEW v \in Users, FetchDel(v)
       PROVE  Located(m, u)'
  <2>1. UNCHANGED <<inbox, mesh, doing, todo, writing, dropped>>
    BY <1>13 DEF FetchDel
  <2>2. CASE UNCHANGED <<userMessages, fetched, stale>>
    BY <2>1, <2>2 DEF Located, OnASocket, InTransit, InHand, InTheList
  <2>3. CASE /\ userMessages' = [userMessages EXCEPT ![v] = <<>>]
             /\ fetched' = [fetched EXCEPT ![v] = @ \cup Elements(taken[v])]
             /\ stale' = StaleIf(taken[v], v)
    <3>1. stale \subseteq stale' /\ (userMessages[v] # taken[v] => v \in stale')
      BY <2>3 DEF StaleIf
    <3>2. fetched[u] \subseteq fetched'[u] /\ Elements(taken[v]) \subseteq fetched'[v]
      BY <2>3
    <3>3. InTheList(m, u) => InTheList(m, u)' \/ m \in fetched'[u] \/ u \in stale'
      BY <2>3, <3>1, <3>2 DEF InTheList
    <3> QED
      BY <2>1, <3>1, <3>2, <3>3 DEF Located, OnASocket, InTransit, InHand
  <2> QED
    BY <1>13, <2>2, <2>3 DEF FetchDel
<1>14. ASSUME NEW pq \in Pods \X Pods, LinkRestored(pq)
       PROVE  Located(m, u)'
  BY <1>14 DEF LinkRestored, Located, OnASocket, InTransit, InHand, InTheList
<1> QED
  BY <1>1, <1>2, <1>3, <1>4, <1>5, <1>6, <1>7, <1>8, <1>9, <1>10, <1>11, <1>12, <1>13, <1>14
     DEF Next, SendStep, JobStep, Receive, Connect, Disconnect, Store, FetchGet, vars

\* A request that failed stays so; a message is accepted by Redirect or Pull.
LEMMA StageSteps ==
  ASSUME TypeInv, [Next]_vars, NEW m \in Messages
  PROVE  /\ stage[m] = "failed" => stage'[m] = "failed"
         /\ stage[m] = "new" => \/ stage'[m] \in {"new", "failed"}
                                \/ Redirect(m) \/ Pull(m)
<1> USE DEF TypeInv, TypeOK, mesh, request, job, cache, history
<1>1. CASE UNCHANGED stage
  BY <1>1
<1>2. ASSUME NEW n \in Messages, Redirect(n) \/ Pull(n) \/ PullDone(n) \/ Store(n)
      PROVE  /\ stage[m] = "failed" => stage'[m] = "failed"
             /\ stage[m] = "new" => stage'[m] = "new" \/ Redirect(m) \/ Pull(m)
  <2>1. CASE n = m
    BY <1>2, <2>1 DEF Redirect, Pull, PullDone, Store
  <2>2. CASE n # m
    BY <1>2, <2>2 DEF Redirect, Pull, PullDone, Store
  <2> QED
    BY <2>1, <2>2
<1>3. ASSUME NEW j \in Jobs, CacheSetFails(j)
      PROVE  stage'[m] \in {stage[m], "failed"}
  BY <1>3 DEF CacheSetFails
<1> QED
  BY <1>1, <1>2, <1>3
     DEF Next, SendStep, JobStep, Receive, Connect, Disconnect, WritePump, LinkFails,
         LinkRestored, HandleBroadcast, DropFrame, DeliverRemote, CacheGet, CacheSet,
         BroadcastDone, FetchGet, FetchDel, vars

\* Redirect serves the receivers it knows and passes on, or drops, the others.
LEMMA RedirectLocates ==
  ASSUME TypeInv, NEW m \in Messages, Redirect(m), NEW u \in Receivers[m]
  PROVE  Located(m, u)'
<1> USE DeliveryAssumption DEF TypeInv, TypeOK
<1> DEFINE p == Origin[m]
           success == Receivers[m] \cap online[p]
           packet == [msg |-> m, target |-> Remaining(Receivers[m], success)]
<1>0. p \in Pods /\ u \in Users
  OBVIOUS
<1>1. CASE u \in success
  <2>1. inbox'[p][u] = Append(inbox[p][u], m)
    BY <1>0, <1>1 DEF Redirect
  <2>2. m \in Elements(inbox'[p][u])
    BY <1>0, <2>1, AppendOne
  <2> QED
    BY <1>0, <2>2 DEF Located, OnASocket
<1>2. CASE u \notin success /\ Peers(p) = {}
  BY <1>2 DEF Redirect, Located
<1>3. CASE u \notin success /\ Peers(p) # {}
  <2>1. PICK q \in Pods : q \in Peers(p)
    BY <1>3 DEF Peers
  <2>2. packet \in Packets /\ IsFor(packet, m, u)
    BY <1>0, <1>3 DEF Packets, Remaining, IsFor
  <2>3. <<p, q>> \in Pods \X Pods /\ channel[<<p, q>>] \in Seq(Packets)
    BY <1>0, <2>1
  <2>4. channel'[<<p, q>>] = Append(channel[<<p, q>>], packet)
    BY <2>1, <2>3 DEF Redirect, SendTo
  <2> HIDE DEF packet
  <2>5. packet \in Elements(channel'[<<p, q>>])
    BY <2>2, <2>3, <2>4, AppendOne
  <2>6. Queued(<<p, q>>, m, u)'
    BY <2>2, <2>5 DEF Queued
  <2>7. InTransit(m, u)'
    BY <2>3, <2>6, InTransitSomewhere
  <2> QED
    BY <2>7 DEF Located
<1> QED
  BY <1>1, <1>2, <1>3

\* Every step keeps the account of the accepted messages.
LEMMA NextAccounted == TypeInv /\ Accounted /\ [Next]_vars => Accounted'
<1> SUFFICES ASSUME TypeInv, Accounted, [Next]_vars,
                    NEW m \in Messages, NEW u \in Receivers[m],
                    stage'[m] \notin {"new", "failed"}
             PROVE  Located(m, u)'
  BY DEF Accounted, Located
<1>0. u \in Users
  BY DeliveryAssumption
<1>1. CASE stage[m] \notin {"new", "failed"}
  <2>1. Located(m, u)
    BY <1>1 DEF Accounted, Located
  <2> QED
    BY <1>0, <2>1, StaysLocated
<1>2. CASE Redirect(m)
  BY <1>2, RedirectLocates
<1>3. CASE Pull(m)
  BY <1>3, DeliveryAssumption DEF Pull, TypeInv, TypeOK, Jobs, Located, InHand
<1> QED
  BY <1>1, <1>2, <1>3, StageSteps

\* Every message that was accepted is on its way to, or with, each of its
\* receivers, or there is one of the two excuses: a pod threw it away, or the
\* receiver's list was rewritten from an old copy (messages.go:2141, 2179;
\* server.go:655).
THEOREM AlwaysAccounted == Spec => []Accounted
<1>1. Init => Accounted
  BY DEF Init, Accounted
<1> QED
  BY <1>1, NextAccounted, DeliveryTypeInvariant, PTL DEF Spec

-----------------------------------------------------------------------------
(* Order *)

Precedes(p, a, b) == Before(sent[p], a, b)

MessagesIn(packets) == {x.msg : x \in Elements(packets)}
OnChannel(pq) == MessagesIn(channel[pq])
OnTheWire(pq) == UNION {MessagesIn(f) : f \in Elements(wire[pq])}
OnLink(pq) == OnTheWire(pq) \cup OnChannel(pq)

\* What q has got from p, another pod.
Seen(p, q) ==
  {m \in Messages : /\ Origin[m] = p /\ p # q
                    /\ doing[q] = m \/ \E u \in Users : m \in Elements(inbox[q][u])}

\* A link carries what its first pod has redirected, and brings it to another one.
LinkCarriesSent ==
  \A p, q \in Pods : \A b \in OnLink(<<p, q>>) :
    p # q /\ b \in Messages /\ Origin[b] = p /\ b \in Elements(sent[p])

SeenWasSent == \A p, q \in Pods : Seen(p, q) \subseteq Elements(sent[p])

\* Along the way from p to q every message is behind those it was redirected after.
SeenFirst ==
  \A p, q \in Pods : \A a \in Seen(p, q), b \in OnLink(<<p, q>>) : Precedes(p, a, b)

WireFirst ==
  \A p, q \in Pods : \A a \in OnTheWire(<<p, q>>), b \in OnChannel(<<p, q>>) : Precedes(p, a, b)

FramesInOrder ==
  \A p, q \in Pods : \A i, j \in DOMAIN wire[<<p, q>>] : i < j =>
    \A a \in MessagesIn(wire[<<p, q>>][i]), b \in MessagesIn(wire[<<p, q>>][j]) : Precedes(p, a, b)

ChannelInOrder ==
  \A p, q \in Pods : \A i, j \in DOMAIN channel[<<p, q>>] : i < j =>
    Precedes(p, channel[<<p, q>>][i].msg, channel[<<p, q>>][j].msg)

\* What a pod is about to queue on a user's sockets comes after what is there.
InHandNext ==
  \A q \in Pods : \A u \in todo[q] : \A a \in Elements(inbox[q][u]) :
    Origin[a] = Origin[doing[q]] /\ Origin[a] # q => Precedes(Origin[a], a, doing[q])

OrderInv ==
  /\ LinkCarriesSent /\ SeenWasSent /\ SeenFirst /\ WireFirst
  /\ FramesInOrder /\ ChannelInOrder /\ InHandNext /\ OrderKept

\* A message redirected now comes after those redirected before.
LEMMA SentLater ==
  ASSUME NEW S, NEW s \in Seq(S), NEW x \in S
  PROVE  /\ \A a, b : Before(s, a, b) => Before(Append(s, x), a, b)
         /\ \A a \in Elements(s) : Before(Append(s, x), a, x)
<1> DEFINE t == Append(s, x)
<1>1. /\ DOMAIN t = 1 .. Len(s) + 1 /\ DOMAIN s = 1 .. Len(s) /\ Len(s) \in Nat
      /\ \A i \in DOMAIN s : t[i] = s[i]
      /\ t[Len(s) + 1] = x
  BY AppendOne, LenProperties
<1> HIDE DEF t
<1>2. DOMAIN s \subseteq DOMAIN t /\ Len(s) + 1 \in DOMAIN t /\ \A i \in DOMAIN s : i < Len(s) + 1
  BY <1>1
<1>3. \A a, b : Before(s, a, b) => Before(t, a, b)
  BY <1>1, <1>2 DEF Before
<1>4. \A a \in Elements(s) : Before(t, a, x)
  BY <1>1, <1>2 DEF Before, Elements
<1> QED
  BY <1>3, <1>4 DEF t

\* The order holds when the pods start.
LEMMA InitOrderInv == Init => OrderInv
<1> SUFFICES ASSUME Init PROVE OrderInv
  OBVIOUS
<1>1. /\ \A pq \in Pods \X Pods : channel[pq] = <<>> /\ wire[pq] = <<>>
      /\ \A q \in Pods : doing[q] = NoMessage /\ todo[q] = {}
      /\ \A q \in Pods, u \in Users : inbox[q][u] = <<>>
  BY DEF Init, Jobs
<1>2. DOMAIN <<>> = {}
  OBVIOUS
<1>3. \A p, q \in Pods : OnLink(<<p, q>>) = {} /\ OnTheWire(<<p, q>>) = {} /\ Seen(p, q) = {}
  BY <1>1, <1>2, DeliveryAssumption
     DEF OnLink, OnTheWire, OnChannel, MessagesIn, Elements, Seen
<1> QED
  BY <1>1, <1>2, <1>3
     DEF OrderInv, LinkCarriesSent, SeenWasSent, SeenFirst, WireFirst, FramesInOrder,
         ChannelInOrder, InHandNext, OrderKept

\* A step that leaves inboxes, links and what was sent alone, and gives no pod
\* a message or a receiver.
LEMMA OrderUntouched ==
  ASSUME OrderInv, UNCHANGED <<inbox, channel, wire, sent>>,
         \A q \in Pods : doing'[q] \in {doing[q], NoMessage} /\ todo'[q] \subseteq todo[q],
         \A q \in Pods : doing'[q] # doing[q] => todo'[q] = {}
  PROVE  OrderInv'
<1>1. \A p, q \in Pods : Seen(p, q)' \subseteq Seen(p, q)
  BY DeliveryAssumption DEF Seen
<1>2. \A pq : /\ OnLink(pq)' = OnLink(pq) /\ OnTheWire(pq)' = OnTheWire(pq)
              /\ OnChannel(pq)' = OnChannel(pq)
  BY DEF OnLink, OnTheWire, OnChannel
<1>3. \A p, a, b : Precedes(p, a, b)' = Precedes(p, a, b)
  BY DEF Precedes
<1>4. (LinkCarriesSent /\ SeenWasSent /\ SeenFirst /\ WireFirst)'
  BY <1>1, <1>2, <1>3 DEF OrderInv, LinkCarriesSent, SeenWasSent, SeenFirst, WireFirst
<1>5. (FramesInOrder /\ ChannelInOrder /\ OrderKept)'
  BY <1>3 DEF OrderInv, FramesInOrder, ChannelInOrder, OrderKept
<1>6. InHandNext'
  BY <1>3 DEF OrderInv, InHandNext
<1> QED
  BY <1>4, <1>5, <1>6 DEF OrderInv

\* What is left of a queue when its first elements, or all, are taken.
Shorter(t, s) ==
  /\ DOMAIN t \subseteq Nat
  /\ \E d \in Nat : \A i \in DOMAIN t : i + d \in DOMAIN s /\ t[i] = s[i + d]

\* A queue without its first element, and an empty one, are shorter.
LEMMA ShorterQueue ==
  ASSUME NEW S, NEW s \in Seq(S)
  PROVE  /\ Shorter(s, s) /\ Shorter(<<>>, s)
         /\ s # <<>> => Shorter(Tail(s), s)
<1>1. DOMAIN s = 1 .. Len(s) /\ Len(s) \in Nat
  BY LenProperties
<1>2. Shorter(s, s)
  <2>1. \A i \in DOMAIN s : i + 0 \in DOMAIN s /\ s[i] = s[i + 0]
    BY <1>1
  <2>2. DOMAIN s \subseteq Nat
    BY <1>1
  <2> QED
    BY <2>1, <2>2 DEF Shorter
<1>3. Shorter(<<>>, s)
  BY DEF Shorter
<1>4. ASSUME s # <<>>
      PROVE  Shorter(Tail(s), s)
  <2>1. \A i \in DOMAIN Tail(s) : Tail(s)[i] = s[i + 1] /\ i + 1 \in DOMAIN s
    BY <1>4, TakeFirst
  <2>2. DOMAIN Tail(s) \subseteq Nat
    BY <1>4, TakeFirst, LenProperties
  <2> QED
    BY <2>1, <2>2 DEF Shorter
<1> QED
  BY <1>2, <1>3, <1>4

\* Whatever is taken from the front of links, what is left is in order.
LEMMA OrderOnShorterLinks ==
  ASSUME OrderInv, UNCHANGED sent,
         \A pq \in Pods \X Pods : Shorter(wire'[pq], wire[pq]) /\ Shorter(channel'[pq], channel[pq])
  PROVE  /\ \A pq \in Pods \X Pods : OnLink(pq)' \subseteq OnLink(pq)
         /\ (LinkCarriesSent /\ WireFirst /\ FramesInOrder /\ ChannelInOrder)'
<1>0. \A p, a, b : Precedes(p, a, b)' = Precedes(p, a, b)
  BY DEF Precedes
<1>1. \A pq \in Pods \X Pods : /\ Elements(wire'[pq]) \subseteq Elements(wire[pq])
                               /\ Elements(channel'[pq]) \subseteq Elements(channel[pq])
  BY DEF Shorter, Elements
<1>2. \A pq \in Pods \X Pods : /\ OnTheWire(pq)' \subseteq OnTheWire(pq)
                               /\ OnChannel(pq)' \subseteq OnChannel(pq)
                               /\ OnLink(pq)' \subseteq OnLink(pq)
  BY <1>1 DEF OnTheWire, OnChannel, OnLink, MessagesIn
<1>3. LinkCarriesSent' /\ WireFirst'
  BY <1>0, <1>2 DEF OrderInv, LinkCarriesSent, WireFirst
<1>4. FramesInOrder'
  <2> SUFFICES ASSUME NEW p \in Pods, NEW q \in Pods,
                      NEW i \in DOMAIN wire'[<<p, q>>], NEW j \in DOMAIN wire'[<<p, q>>], i < j,
                      NEW a \in MessagesIn(wire'[<<p, q>>][i]),
                      NEW b \in MessagesIn(wire'[<<p, q>>][j])
               PROVE  Precedes(p, a, b)
    BY <1>0 DEF FramesInOrder, MessagesIn
  <2>1. PICK d \in Nat : \A k \in DOMAIN wire'[<<p, q>>] :
          k + d \in DOMAIN wire[<<p, q>>] /\ wire'[<<p, q>>][k] = wire[<<p, q>>][k + d]
    BY DEF Shorter
  <2>2. i + d < j + d
    BY DEF Shorter
  <2> QED
    BY <2>1, <2>2 DEF OrderInv, FramesInOrder
<1>5. ChannelInOrder'
  <2> SUFFICES ASSUME NEW p \in Pods, NEW q \in Pods,
                      NEW i \in DOMAIN channel'[<<p, q>>], NEW j \in DOMAIN channel'[<<p, q>>], i < j
               PROVE  Precedes(p, channel'[<<p, q>>][i].msg, channel'[<<p, q>>][j].msg)
    BY <1>0 DEF ChannelInOrder
  <2>1. PICK d \in Nat : \A k \in DOMAIN channel'[<<p, q>>] :
          k + d \in DOMAIN channel[<<p, q>>] /\ channel'[<<p, q>>][k] = channel[<<p, q>>][k + d]
    BY DEF Shorter
  <2>2. i + d < j + d
    BY DEF Shorter
  <2> QED
    BY <2>1, <2>2 DEF OrderInv, ChannelInOrder
<1> QED
  BY <1>2, <1>3, <1>4, <1>5

\* Frames that are thrown away and links that fail keep the order of the rest.
LEMMA LostKeepsOrder ==
  ASSUME OrderInv, UNCHANGED <<inbox, doing, todo, sent>>,
         \A pq \in Pods \X Pods : Shorter(wire'[pq], wire[pq]) /\ Shorter(channel'[pq], channel[pq])
  PROVE  OrderInv'
<1>1. /\ \A pq \in Pods \X Pods : OnLink(pq)' \subseteq OnLink(pq)
      /\ (LinkCarriesSent /\ WireFirst /\ FramesInOrder /\ ChannelInOrder)'
  BY OrderOnShorterLinks
<1>2. /\ \A p, q : Seen(p, q)' = Seen(p, q)
      /\ \A p, a, b : Precedes(p, a, b)' = Precedes(p, a, b)
  BY DEF Precedes, Seen
<1>3. (SeenWasSent /\ SeenFirst /\ InHandNext /\ OrderKept)'
  BY <1>1, <1>2 DEF OrderInv, SeenWasSent, SeenFirst, InHandNext, OrderKept
<1> QED
  BY <1>1, <1>3 DEF OrderInv

\* handleBroadcastNotification takes the first frame of a link (server.go:655).
LEMMA HandledInOrder ==
  ASSUME TypeInv, OrderInv, NEW p \in Pods, NEW q \in Pods, HandleBroadcast(p, q)
  PROVE  OrderInv'
<1> DEFINE w == wire[<<p, q>>]
           m == Head(w)[1].msg
<1> USE DeliveryAssumption DEF TypeInv, TypeOK
<1>1. /\ w \in Seq(Frames) /\ w # <<>> /\ <<p, q>> \in Pods \X Pods
      /\ wire \in [Pods \X Pods -> Seq(Frames)]
  BY DEF HandleBroadcast, Frames
<1>2. /\ wire' = [wire EXCEPT ![<<p, q>>] = Tail(@)]
      /\ doing' = [doing EXCEPT ![q] = m] /\ doing[q] = NoMessage
      /\ UNCHANGED <<inbox, channel, sent>>
      /\ \A r \in Pods \ {q} : todo'[r] = todo[r]
      /\ todo'[q] \subseteq Users
  <2>1. Head(w) \in Frames /\ Len(Head(w)) = 1
    BY <1>1, TakeFirst DEF HandleBroadcast, Decodes
  <2>2. Head(w)[1] \in Packets
    BY <2>1 DEF Frames
  <2>3. Head(w)[1].target \subseteq Users
    BY <2>2 DEF Packets
  <2>4. /\ wire' = [wire EXCEPT ![<<p, q>>] = Tail(@)]
        /\ doing' = [doing EXCEPT ![q] = m] /\ doing[q] = NoMessage
        /\ todo' = [todo EXCEPT ![q] = Head(w)[1].target]
        /\ UNCHANGED <<inbox, channel, sent>>
    BY DEF HandleBroadcast, MuFree, cache, history
  <2> HIDE DEF m, w
  <2>5. \A r \in Pods \ {q} : todo'[r] = todo[r]
    BY <2>4 DEF Jobs
  <2>6. todo'[q] \subseteq Users
    BY <2>3, <2>4 DEF Jobs
  <2> QED
    BY <2>4, <2>5, <2>6
<1>3. /\ 1 \in DOMAIN w /\ w[1] = Head(w) /\ Head(w) \in Elements(w)
      /\ \A i \in DOMAIN Tail(w) : Tail(w)[i] = w[i + 1] /\ i + 1 \in DOMAIN w /\ 1 < i + 1
  <2>1. /\ 1 \in DOMAIN w /\ w[1] = Head(w)
        /\ \A i \in DOMAIN Tail(w) : Tail(w)[i] = w[i + 1] /\ i + 1 \in DOMAIN w
        /\ Head(w) \in Elements(w)
    BY <1>1, TakeFirst
  <2>2. \A i \in DOMAIN Tail(w) : i \in Nat /\ 1 <= i
    BY <1>1, TakeFirst, LenProperties
  <2>3. \A i \in Nat : 1 <= i => 1 < i + 1
    OBVIOUS
  <2> QED
    BY ONLY <2>1, <2>2, <2>3
<1>4. m \in MessagesIn(w[1]) /\ m \in OnTheWire(<<p, q>>) /\ m \in OnLink(<<p, q>>)
  <2>1. Head(w) \in Seq(Packets) /\ Len(Head(w)) = 1
    BY <1>1, TakeFirst DEF Frames, HandleBroadcast, Decodes
  <2>2. DOMAIN Head(w) = 1 .. 1
    BY <2>1, LenProperties
  <2>3. Head(w)[1] \in Elements(Head(w))
    <3>1. 1 \in DOMAIN Head(w)
      <4>1. 1 \in 1 .. 1
        OBVIOUS
      <4> QED
        BY ONLY <2>2, <4>1
    <3> HIDE DEF w
    <3> QED
      BY <3>1 DEF Elements
  <2>4. m \in MessagesIn(Head(w))
    BY <2>3 DEF MessagesIn
  <2> HIDE DEF m
  <2>5. m \in OnTheWire(<<p, q>>)
    BY <1>3, <2>4 DEF OnTheWire
  <2> QED
    BY <1>3, <2>4, <2>5 DEF OnLink
<1>5. p # q /\ m \in Messages /\ Origin[m] = p /\ m \in Elements(sent[p])
  BY <1>4 DEF OrderInv, LinkCarriesSent
<1> HIDE DEF m, w
<1>6. \A pq \in Pods \X Pods : Shorter(wire'[pq], wire[pq]) /\ Shorter(channel'[pq], channel[pq])
  BY <1>1, <1>2, ShorterQueue DEF w
<1>7. /\ \A pq \in Pods \X Pods : OnLink(pq)' \subseteq OnLink(pq)
      /\ (LinkCarriesSent /\ WireFirst /\ FramesInOrder /\ ChannelInOrder)'
  BY <1>2, <1>6, OrderOnShorterLinks
<1>8. /\ \A r \in Pods : \A o \in Pods : Seen(o, r)' \subseteq Seen(o, r) \cup
           (IF r = q /\ o = p THEN {m} ELSE {})
      /\ \A o, a, b : Precedes(o, a, b)' = Precedes(o, a, b)
  BY <1>2, <1>5 DEF Precedes, Seen, Jobs
<1>9. SeenWasSent'
  BY <1>2, <1>5, <1>8 DEF OrderInv, SeenWasSent
<1>10. ASSUME NEW b \in OnLink(<<p, q>>)'
       PROVE  Precedes(p, m, b)
  <2>1. CASE b \in OnChannel(<<p, q>>)'
    BY <1>2, <1>4, <2>1 DEF OrderInv, WireFirst, OnChannel
  <2>2. CASE b \in OnTheWire(<<p, q>>)'
    <3>1. wire'[<<p, q>>] = Tail(w)
      BY <1>1, <1>2 DEF w
    <3>2. PICK f \in Elements(Tail(w)) : b \in MessagesIn(f)
      BY <2>2, <3>1 DEF OnTheWire, MessagesIn
    <3>3. PICK i \in DOMAIN Tail(w) : f = Tail(w)[i]
      BY DEF Elements
    <3>4. i + 1 \in DOMAIN w /\ 1 \in DOMAIN w /\ 1 < i + 1 /\ b \in MessagesIn(w[i + 1])
      BY <1>3, <3>2, <3>3
    <3>5. \A k, n \in DOMAIN w : k < n =>
            \A a \in MessagesIn(w[k]), c \in MessagesIn(w[n]) : Precedes(p, a, c)
      BY DEF OrderInv, FramesInOrder, w
    <3> QED
      BY <1>4, <3>4, <3>5
  <2> QED
    BY <1>10, <2>1, <2>2 DEF OnLink
<1>11. SeenFirst'
  <2> SUFFICES ASSUME NEW o \in Pods, NEW r \in Pods,
                      NEW a \in Seen(o, r)', NEW b \in OnLink(<<o, r>>)'
               PROVE  Precedes(o, a, b)
    BY <1>8 DEF SeenFirst
  <2>1. CASE a \in Seen(o, r)
    <3>1. b \in OnLink(<<o, r>>)
      BY <1>7
    <3> QED
      BY <2>1, <3>1 DEF OrderInv, SeenFirst
  <2>2. CASE a \notin Seen(o, r)
    <3>1. r = q /\ o = p /\ a = m
      BY <1>8, <2>2
    <3> QED
      BY <1>10, <3>1
  <2> QED
    BY <2>1, <2>2
<1>12. InHandNext'
  <2> SUFFICES ASSUME NEW r \in Pods, NEW u \in todo'[r], NEW a \in Elements(inbox[r][u]),
                      Origin[a] = Origin[doing'[r]], Origin[a] # r
               PROVE  Precedes(Origin[a], a, doing'[r])
    BY <1>2, <1>8 DEF InHandNext
  <2>1. CASE r # q
    <3>1. doing'[r] = doing[r] /\ u \in todo[r]
      BY <1>2, <2>1 DEF Jobs
    <3> QED
      BY <3>1 DEF OrderInv, InHandNext
  <2>2. CASE r = q
    <3>1. doing'[r] = m /\ Origin[a] = p
      BY <1>2, <1>5, <2>2 DEF Jobs
    <3>2. u \in Users /\ a \in Messages
      BY <1>2, <2>2, LenProperties DEF Elements
    <3>3. a \in Seen(p, q)
      BY <1>5, <2>2, <3>1, <3>2 DEF Seen
    <3> QED
      BY <1>4, <3>1, <3>3 DEF OrderInv, SeenFirst
  <2> QED
    BY <2>1, <2>2
<1>13. OrderKept'
  BY <1>2 DEF OrderInv, OrderKept
<1> QED
  BY <1>7, <1>9, <1>11, <1>12, <1>13 DEF OrderInv

\* redirectMessageToSockets puts its message behind the others of its pod (messages.go:2179).
LEMMA RedirectedInOrder ==
  ASSUME TypeInv, OrderInv, NEW n \in Messages, Redirect(n)
  PROVE  OrderInv'
<1> USE DeliveryAssumption
<1> DEFINE o == Origin[n]
           packet == [msg |-> n, target |-> Remaining(Receivers[n], Receivers[n] \cap online[o])]
           Later(p, a, b) == Before(sent'[p], a, b)
<1>0. /\ o \in Pods /\ packet \in Packets /\ packet.msg = n
      /\ sent \in [Pods -> Seq(Messages)] /\ channel \in [Pods \X Pods -> Seq(Packets)]
      /\ inbox \in [Pods -> [Users -> Seq(Messages)]]
  BY DEF Packets, Remaining, TypeInv, TypeOK
<1>1. /\ sent' = [sent EXCEPT ![o] = Append(@, n)] /\ doing[o] = NoMessage
      /\ UNCHANGED <<wire, doing, todo>>
      /\ \A pq \in Pods \X Pods :
           \/ channel'[pq] = channel[pq]
           \/ /\ pq[1] = o /\ pq[2] # o
              /\ channel'[pq] = Append(channel[pq], packet)
      /\ \A q \in Pods, u \in Users :
           inbox'[q][u] = inbox[q][u] \/ (q = o /\ inbox'[q][u] = Append(inbox[q][u], n))
  BY <1>0 DEF Redirect, SendTo, MuFree, Peers, job, TypeInv, TypeOK
<1> HIDE DEF o, packet
<1>2. /\ \A p \in Pods : \A a, b : Precedes(p, a, b) => Later(p, a, b)
      /\ \A p, a, b : Precedes(p, a, b)' = Later(p, a, b)
      /\ \A a \in Elements(sent[o]) : Later(o, a, n)
      /\ \A p \in Pods : Elements(sent[p]) \subseteq Elements(sent'[p])
      /\ n \in Elements(sent'[o])
  <2>1. /\ \A a, b : Before(sent[o], a, b) => Before(Append(sent[o], n), a, b)
        /\ \A a \in Elements(sent[o]) : Before(Append(sent[o], n), a, n)
        /\ Elements(Append(sent[o], n)) = Elements(sent[o]) \cup {n}
    BY <1>0, SentLater, AppendOne
  <2> QED
    BY <1>0, <1>1, <2>1 DEF Precedes
<1> HIDE DEF Later
<1>3. /\ \A pq \in Pods \X Pods :
           /\ OnTheWire(pq)' = OnTheWire(pq)
           /\ OnChannel(pq)' \subseteq OnChannel(pq) \cup (IF pq[1] = o /\ pq[2] # o THEN {n} ELSE {})
  <2> SUFFICES ASSUME NEW pq \in Pods \X Pods
               PROVE  /\ OnTheWire(pq)' = OnTheWire(pq)
                      /\ OnChannel(pq)' \subseteq OnChannel(pq) \cup
                           (IF pq[1] = o /\ pq[2] # o THEN {n} ELSE {})
    OBVIOUS
  <2>1. OnTheWire(pq)' = OnTheWire(pq)
    BY <1>1 DEF OnTheWire, MessagesIn, Elements
  <2>2. Elements(Append(channel[pq], packet)) = Elements(channel[pq]) \cup {packet}
    BY <1>0, AppendOne
  <2>3. CASE channel'[pq] = channel[pq]
    BY <2>1, <2>3 DEF OnChannel
  <2>4. CASE pq[1] = o /\ pq[2] # o /\ channel'[pq] = Append(channel[pq], packet)
    BY <1>0, <2>1, <2>2, <2>4 DEF OnChannel, MessagesIn
  <2> QED
    BY <1>1, <2>3, <2>4
<1>4. ASSUME NEW p \in Pods, NEW q \in Pods, NEW b \in OnLink(<<p, q>>)'
      PROVE  b \in OnLink(<<p, q>>) \/ (p = o /\ q # o /\ b = n)
  BY <1>3 DEF OnLink
<1>5. ASSUME NEW p \in Pods, NEW q \in Pods
      PROVE  Seen(p, q)' = Seen(p, q)
  <2>1. ASSUME NEW u \in Users
        PROVE  \/ inbox'[q][u] = inbox[q][u]
               \/ q = o /\ Elements(inbox'[q][u]) = Elements(inbox[q][u]) \cup {n}
    <3>1. inbox[q][u] \in Seq(Messages)
      BY <1>0
    <3>2. Elements(Append(inbox[q][u], n)) = Elements(inbox[q][u]) \cup {n}
      BY <3>1, AppendOne
    <3>3. \/ inbox'[q][u] = inbox[q][u]
          \/ q = o /\ inbox'[q][u] = Append(inbox[q][u], n)
      BY <1>1
    <3> QED
      BY ONLY <3>2, <3>3
  <2>2. ASSUME NEW m \in Messages, Origin[m] = p, p # q, NEW u \in Users
        PROVE  m \in Elements(inbox'[q][u]) <=> m \in Elements(inbox[q][u])
    BY <2>1, <2>2 DEF o
  <2> QED
    BY <1>1, <2>2 DEF Seen
<1>6. LinkCarriesSent'
  BY <1>2, <1>4 DEF OrderInv, LinkCarriesSent, o
<1>7. SeenWasSent'
  BY <1>2, <1>5 DEF OrderInv, SeenWasSent
<1>8. SeenFirst'
  <2> SUFFICES ASSUME NEW p \in Pods, NEW q \in Pods, NEW a \in Seen(p, q), NEW b \in OnLink(<<p, q>>)'
               PROVE  Later(p, a, b)
    BY <1>2, <1>5 DEF SeenFirst
  <2>1. CASE b \in OnLink(<<p, q>>)
    BY <1>2, <2>1 DEF OrderInv, SeenFirst
  <2>2. CASE b \notin OnLink(<<p, q>>)
    BY <1>2, <1>4, <2>2 DEF OrderInv, SeenWasSent
  <2> QED
    BY <2>1, <2>2
<1>9. WireFirst'
  <2> SUFFICES ASSUME NEW p \in Pods, NEW q \in Pods,
                      NEW a \in OnTheWire(<<p, q>>), NEW b \in OnChannel(<<p, q>>)'
               PROVE  Later(p, a, b)
    BY <1>2, <1>3 DEF WireFirst
  <2>1. CASE b \in OnChannel(<<p, q>>)
    BY <1>2, <2>1 DEF OrderInv, WireFirst
  <2>2. CASE b \notin OnChannel(<<p, q>>)
    <3>1. p = o /\ b = n
      BY <1>3, <2>2
    <3>2. a \in Elements(sent[p])
      BY DEF OrderInv, LinkCarriesSent, OnLink
    <3> QED
      BY <1>2, <3>1, <3>2
  <2> QED
    BY <2>1, <2>2
<1>10. FramesInOrder'
  BY <1>1, <1>2 DEF OrderInv, FramesInOrder, MessagesIn
<1>11. ChannelInOrder'
  <2> SUFFICES ASSUME NEW p \in Pods, NEW q \in Pods,
                      NEW i \in DOMAIN channel'[<<p, q>>], NEW j \in DOMAIN channel'[<<p, q>>], i < j
               PROVE  Later(p, channel'[<<p, q>>][i].msg, channel'[<<p, q>>][j].msg)
    BY <1>2 DEF ChannelInOrder
  <2> DEFINE c == channel[<<p, q>>]
  <2>1. CASE channel'[<<p, q>>] = c
    BY <1>2, <2>1 DEF OrderInv, ChannelInOrder
  <2>2. CASE p = o /\ q # o /\ channel'[<<p, q>>] = Append(c, packet)
    <3>1. /\ DOMAIN c = 1 .. Len(c) /\ DOMAIN channel'[<<p, q>>] = 1 .. Len(c) + 1
          /\ \A k \in DOMAIN c : channel'[<<p, q>>][k] = c[k]
          /\ channel'[<<p, q>>][Len(c) + 1] = packet /\ Len(c) \in Nat
      <4>1. c \in Seq(Packets)
        BY <1>0
      <4> QED
        BY ONLY <1>0, <2>2, <4>1, AppendOne, LenProperties
    <3>2. i \in DOMAIN c
      BY <3>1
    <3>3. CASE j \in DOMAIN c
      BY <1>2, <3>1, <3>2, <3>3 DEF OrderInv, ChannelInOrder
    <3>4. CASE j \notin DOMAIN c
      <4>1. j = Len(c) + 1
        BY <3>1, <3>4
      <4>2. c[i].msg \in OnLink(<<p, q>>)
        BY <3>2 DEF OnLink, OnChannel, MessagesIn, Elements
      <4>3. c[i].msg \in Elements(sent[o])
        BY <2>2, <4>2 DEF OrderInv, LinkCarriesSent
      <4> QED
        BY <1>0, <1>2, <2>2, <3>1, <3>2, <4>1, <4>3
    <3> QED
      BY <3>3, <3>4
  <2> QED
    BY <1>1, <2>1, <2>2
<1>12. InHandNext'
  <2> SUFFICES ASSUME NEW q \in Pods, NEW u \in todo[q], NEW a \in Elements(inbox'[q][u]),
                      Origin[a] = Origin[doing[q]], Origin[a] # q
               PROVE  Later(Origin[a], a, doing[q])
    BY <1>1, <1>2 DEF InHandNext
  <2>1. u \in Users /\ doing[q] # NoMessage /\ q # o
    BY <1>1 DEF TypeInv, TypeOK, Jobs
  <2>2. inbox'[q][u] = inbox[q][u]
    BY <1>1, <2>1
  <2>3. doing[q] \in Messages
    BY <2>1 DEF TypeInv, TypeOK, Jobs
  <2> QED
    BY <1>2, <2>2, <2>3 DEF OrderInv, InHandNext
<1>13. OrderKept'
  <2> SUFFICES ASSUME NEW q \in Pods, NEW u \in Users,
                      NEW i \in DOMAIN inbox'[q][u], NEW j \in DOMAIN inbox'[q][u], i < j,
                      Origin[inbox'[q][u][i]] = Origin[inbox'[q][u][j]],
                      Origin[inbox'[q][u][i]] # q
               PROVE  Later(Origin[inbox'[q][u][i]], inbox'[q][u][i], inbox'[q][u][j])
    BY DEF OrderKept, Later
  <2> DEFINE b == inbox[q][u]
  <2>1. b \in Seq(Messages)
    BY <1>0
  <2>2. i \in DOMAIN b /\ j \in DOMAIN b /\ inbox'[q][u][i] = b[i] /\ inbox'[q][u][j] = b[j]
    <3>1. CASE inbox'[q][u] = b
      BY <3>1
    <3>2. CASE q = o /\ inbox'[q][u] = Append(b, n)
      <4>1. /\ DOMAIN b = 1 .. Len(b) /\ DOMAIN inbox'[q][u] = 1 .. Len(b) + 1 /\ Len(b) \in Nat
            /\ \A k \in DOMAIN b : inbox'[q][u][k] = b[k]
            /\ inbox'[q][u][Len(b) + 1] = n
        BY <2>1, <3>2, AppendOne, LenProperties
      <4>2. j # Len(b) + 1
        BY <3>2, <4>1 DEF o
      <4> QED
        BY <4>1, <4>2
    <3> QED
      BY <1>1, <3>1, <3>2
  <2>3. b[i] \in Messages /\ Origin[b[i]] \in Pods
    BY <2>1, <2>2, LenProperties
  <2> HIDE DEF b
  <2>4. Precedes(Origin[b[i]], b[i], b[j])
    BY <2>2 DEF OrderInv, OrderKept, Precedes, b
  <2> QED
    BY <1>2, <2>2, <2>3, <2>4
<1> QED
  BY <1>6, <1>7, <1>8, <1>9, <1>10, <1>11, <1>12, <1>13 DEF OrderInv

\* writePump moves the front of the channel to the end of the wire (server.go:380).
LEMMA WrittenInOrder ==
  ASSUME TypeInv, OrderInv, NEW o \in Pods \X Pods, WritePump(o)
  PROVE  OrderInv'
<1> USE DeliveryAssumption DEF TypeInv, TypeOK
<1> DEFINE c == channel[o]
           w == wire[o]
<1>0. c \in Seq(Packets) /\ w \in Seq(Frames)
  BY DEF Frames
<1>1. PICK n \in 1 .. Len(c) :
        /\ wire' = [wire EXCEPT ![o] = Append(w, SubSeq(c, 1, n))]
        /\ channel' = [channel EXCEPT ![o] = SubSeq(c, n + 1, Len(c))]
  BY DEF WritePump, FrameSizes
<1> DEFINE f == SubSeq(c, 1, n)
           r == SubSeq(c, n + 1, Len(c))
<1> HIDE DEF c, w
<1>2. /\ f \in Seq(Packets) \ {<<>>} /\ DOMAIN f = 1 .. n /\ DOMAIN r = 1 .. Len(c) - n
      /\ \A i \in DOMAIN f : f[i] = c[i] /\ i \in DOMAIN c
      /\ \A i \in DOMAIN r : r[i] = c[n + i] /\ n + i \in DOMAIN c
      /\ Elements(c) = Elements(f) \cup Elements(r)
  <2>1. f \in Seq(Packets) \ {<<>>}
    BY ONLY <1>0, n \in 1 .. Len(c), CutFrame
  <2>5. DOMAIN f = 1 .. n
    BY ONLY <1>0, n \in 1 .. Len(c), CutFrame
  <2>6. DOMAIN r = 1 .. Len(c) - n
    BY ONLY <1>0, n \in 1 .. Len(c), CutFrame
  <2>2. \A i \in DOMAIN f : f[i] = c[i] /\ i \in DOMAIN c
    BY ONLY <1>0, n \in 1 .. Len(c), CutFrame
  <2>3. \A i \in DOMAIN r : r[i] = c[n + i] /\ n + i \in DOMAIN c
    BY ONLY <1>0, n \in 1 .. Len(c), CutFrame
  <2>4. Elements(c) = Elements(f) \cup Elements(r)
    BY ONLY <1>0, n \in 1 .. Len(c), CutFrame
  <2> QED
    BY <2>1, <2>2, <2>3, <2>4, <2>5, <2>6
<1>3. UNCHANGED <<inbox, doing, todo, sent>>
  BY DEF WritePump, job, history
<1> HIDE DEF f, r
<1>4. /\ wire'[o] = Append(w, f) /\ channel'[o] = r /\ o \in Pods \X Pods
      /\ \A pq \in (Pods \X Pods) \ {o} : wire'[pq] = wire[pq] /\ channel'[pq] = channel[pq]
  BY <1>1 DEF f, r
<1>5. /\ DOMAIN w = 1 .. Len(w) /\ DOMAIN wire'[o] = 1 .. Len(w) + 1 /\ Len(w) \in Nat
      /\ \A k \in DOMAIN w : wire'[o][k] = w[k]
      /\ wire'[o][Len(w) + 1] = f
      /\ Elements(wire'[o]) = Elements(w) \cup {f}
      /\ \A k \in 1 .. Len(w) + 1 : k \notin 1 .. Len(w) => k = Len(w) + 1
      /\ \A i, j \in 1 .. Len(w) + 1 : i < j => i \in 1 .. Len(w)
  <2>1. f \in Frames
    BY <1>2 DEF Frames
  <2>2. /\ DOMAIN w = 1 .. Len(w) /\ DOMAIN Append(w, f) = 1 .. Len(w) + 1 /\ Len(w) \in Nat
        /\ \A k \in DOMAIN w : Append(w, f)[k] = w[k]
        /\ Append(w, f)[Len(w) + 1] = f
        /\ Elements(Append(w, f)) = Elements(w) \cup {f}
    BY ONLY <1>0, <2>1, AppendOne, LenProperties
  <2>3. \A l \in Nat : /\ \A k \in 1 .. l + 1 : k \notin 1 .. l => k = l + 1
                       /\ \A i, j \in 1 .. l + 1 : i < j => i \in 1 .. l
    OBVIOUS
  <2> QED
    BY <1>4, <2>2, <2>3
<1>6. /\ \A p, q : Seen(p, q)' = Seen(p, q)
      /\ \A p, a, b : Precedes(p, a, b)' = Precedes(p, a, b)
  BY <1>3 DEF Precedes, Seen
<1>7. /\ OnChannel(o) = MessagesIn(f) \cup MessagesIn(r)
      /\ OnChannel(o)' = MessagesIn(r)
      /\ OnTheWire(o)' = OnTheWire(o) \cup MessagesIn(f)
  BY <1>2, <1>4, <1>5 DEF OnChannel, OnTheWire, MessagesIn, c, w
<1>8. \A pq \in (Pods \X Pods) \ {o} : OnChannel(pq)' = OnChannel(pq) /\ OnTheWire(pq)' = OnTheWire(pq)
  BY <1>4 DEF OnChannel, OnTheWire, MessagesIn
<1>9. \A pq \in Pods \X Pods : OnLink(pq)' = OnLink(pq)
  <2> SUFFICES ASSUME NEW pq \in Pods \X Pods
               PROVE  OnLink(pq)' = OnLink(pq)
    OBVIOUS
  <2>1. CASE pq = o
    BY <1>7, <2>1 DEF OnLink
  <2>2. CASE pq # o
    BY <1>8, <2>2 DEF OnLink
  <2> QED
    BY <2>1, <2>2
<1>10. (LinkCarriesSent /\ SeenWasSent /\ SeenFirst)'
  BY <1>3, <1>6, <1>9 DEF OrderInv, LinkCarriesSent, SeenWasSent, SeenFirst
<1>11. (InHandNext /\ OrderKept)'
  BY <1>3, <1>6 DEF OrderInv, InHandNext, OrderKept
<1>12. \A a \in MessagesIn(f), b \in MessagesIn(r) : Precedes(o[1], a, b)
  <2> SUFFICES ASSUME NEW i \in DOMAIN f, NEW j \in DOMAIN r
               PROVE  Precedes(o[1], f[i].msg, r[j].msg)
    BY DEF MessagesIn, Elements
  <2>1. i \in DOMAIN c /\ n + j \in DOMAIN c /\ i < n + j
    BY <1>2
  <2>2. o = <<o[1], o[2]>> /\ o[1] \in Pods /\ o[2] \in Pods
    OBVIOUS
  <2>3. Precedes(o[1], c[i].msg, c[n + j].msg)
    BY <2>1, <2>2 DEF OrderInv, ChannelInOrder, c
  <2> QED
    BY <1>2, <2>3
<1>13. WireFirst'
  <2> SUFFICES ASSUME NEW p \in Pods, NEW q \in Pods,
                      NEW a \in OnTheWire(<<p, q>>)', NEW b \in OnChannel(<<p, q>>)'
               PROVE  Precedes(p, a, b)
    BY <1>6 DEF WireFirst
  <2>1. CASE <<p, q>> # o
    <3>1. <<p, q>> \in (Pods \X Pods) \ {o}
      BY <2>1
    <3>2. a \in OnTheWire(<<p, q>>) /\ b \in OnChannel(<<p, q>>)
      BY <1>8, <3>1
    <3> QED
      BY <3>2 DEF OrderInv, WireFirst
  <2>2. CASE <<p, q>> = o
    <3>1. /\ a \in OnTheWire(<<p, q>>) \/ a \in MessagesIn(f)
          /\ b \in MessagesIn(r) /\ b \in OnChannel(<<p, q>>) /\ p = o[1]
      BY ONLY <1>7, <2>2, a \in OnTheWire(<<p, q>>)', b \in OnChannel(<<p, q>>)'
    <3>2. CASE a \in OnTheWire(<<p, q>>)
      BY <3>1, <3>2 DEF OrderInv, WireFirst
    <3>3. CASE a \in MessagesIn(f)
      BY <1>12, <3>1, <3>3
    <3> QED
      BY <3>1, <3>2, <3>3
  <2> QED
    BY <2>1, <2>2
<1>14. FramesInOrder'
  <2> SUFFICES ASSUME NEW p \in Pods, NEW q \in Pods,
                      NEW i \in DOMAIN wire'[<<p, q>>], NEW j \in DOMAIN wire'[<<p, q>>], i < j,
                      NEW a \in MessagesIn(wire'[<<p, q>>][i]),
                      NEW b \in MessagesIn(wire'[<<p, q>>][j])
               PROVE  Precedes(p, a, b)
    BY <1>6 DEF FramesInOrder, MessagesIn
  <2>1. CASE <<p, q>> # o
    BY <1>4, <2>1 DEF OrderInv, FramesInOrder
  <2>2. CASE <<p, q>> = o /\ j \in DOMAIN w
    <3>1. i \in DOMAIN w
      BY <1>5, <2>2
    <3> QED
      BY <1>5, <2>2, <3>1 DEF OrderInv, FramesInOrder, w
  <2>3. CASE <<p, q>> = o /\ j \notin DOMAIN w
    <3>1. j = Len(w) + 1 /\ i \in DOMAIN w
      BY <1>5, <2>3
    <3>2. wire'[o][i] = w[i] /\ w[i] \in Elements(w)
      BY <1>5, <3>1 DEF Elements
    <3>3. a \in OnTheWire(<<p, q>>)
      <4>1. wire[<<p, q>>] = w
        BY <2>3 DEF w
      <4>2. w[i] \in Elements(wire[<<p, q>>]) /\ a \in MessagesIn(w[i])
        BY <2>3, <3>2, <4>1
      <4> QED
        BY <4>2 DEF OnTheWire
    <3>4. b \in OnChannel(<<p, q>>)
      BY <1>5, <1>7, <2>3, <3>1
    <3> QED
      BY <3>3, <3>4 DEF OrderInv, WireFirst
  <2> QED
    BY <2>1, <2>2, <2>3
<1>15. ChannelInOrder'
  <2> SUFFICES ASSUME NEW p \in Pods, NEW q \in Pods,
                      NEW i \in DOMAIN channel'[<<p, q>>], NEW j \in DOMAIN channel'[<<p, q>>], i < j
               PROVE  Precedes(p, channel'[<<p, q>>][i].msg, channel'[<<p, q>>][j].msg)
    BY <1>6 DEF ChannelInOrder
  <2>1. CASE <<p, q>> # o
    BY <1>4, <2>1 DEF OrderInv, ChannelInOrder
  <2>2. CASE <<p, q>> = o
    <3>1. i \in DOMAIN r /\ j \in DOMAIN r
      BY <1>4, <2>2
    <3>2. n + i \in DOMAIN c /\ n + j \in DOMAIN c /\ n + i < n + j
      BY <1>2, <3>1
    <3>3. Precedes(p, c[n + i].msg, c[n + j].msg)
      BY <2>2, <3>2 DEF OrderInv, ChannelInOrder, c
    <3> QED
      BY <1>2, <1>4, <2>2, <3>1, <3>3
  <2> QED
    BY <2>1, <2>2
<1> QED
  BY <1>10, <1>11, <1>13, <1>14, <1>15 DEF OrderInv

\* sendMessageToUserSocket puts what the pod has in hand behind what is queued (messages.go:2219).
LEMMA DeliveredInOrder ==
  ASSUME TypeInv, OrderInv, NEW q \in Jobs, NEW v \in Users, DeliverRemote(q, v)
  PROVE  OrderInv'
<1> USE DeliveryAssumption DEF TypeInv, TypeOK
<1> DEFINE m == doing[q]
           b == inbox[q][v]
<1>0. q \in Pods /\ v \in todo[q] /\ m \in Messages /\ b \in Seq(Messages)
  BY DEF DeliverRemote, Jobs
<1>1. /\ inbox' = [inbox EXCEPT ![q][v] = Append(b, m)]
      /\ \A r \in Pods : todo'[r] \subseteq todo[r]
      /\ v \notin todo'[q]
      /\ UNCHANGED <<channel, wire, doing, sent>>
  BY <1>0 DEF DeliverRemote, Take, mesh, history, Jobs
<1>2. /\ DOMAIN b = 1 .. Len(b) /\ DOMAIN Append(b, m) = 1 .. Len(b) + 1 /\ Len(b) \in Nat
      /\ \A k \in DOMAIN b : Append(b, m)[k] = b[k]
      /\ Append(b, m)[Len(b) + 1] = m
      /\ Elements(Append(b, m)) = Elements(b) \cup {m}
  BY <1>0, AppendOne, LenProperties
<1> HIDE DEF m, b
<1>3. /\ inbox'[q][v] = Append(b, m)
      /\ \A r \in Pods, u \in Users : r # q \/ u # v => inbox'[r][u] = inbox[r][u]
  BY <1>0, <1>1
<1>4. ASSUME NEW p \in Pods, NEW r \in Pods
      PROVE  Seen(p, r)' = Seen(p, r)
  <2>1. CASE r # q
    BY <1>1, <1>3, <2>1 DEF Seen
  <2>2. CASE r = q
    <3>1. ASSUME NEW a, a # m, NEW u \in Users
          PROVE  a \in Elements(inbox'[q][u]) <=> a \in Elements(inbox[q][u])
      <4>1. CASE u = v
        <5>1. Elements(inbox'[q][u]) = Elements(b) \cup {m}
          BY <1>2, <1>3, <4>1
        <5>2. b = inbox[q][u]
          BY <4>1 DEF b
        <5> QED
          BY ONLY <3>1, <5>1, <5>2
      <4>2. CASE u # v
        BY <1>0, <1>3, <4>2
      <4> QED
        BY <4>1, <4>2
    <3> QED
      BY <1>1, <2>2, <3>1 DEF Seen, m
  <2> QED
    BY <2>1, <2>2
<1>5. /\ \A pq : OnLink(pq)' = OnLink(pq) /\ OnTheWire(pq)' = OnTheWire(pq) /\ OnChannel(pq)' = OnChannel(pq)
      /\ \A p, a, c : Precedes(p, a, c)' = Precedes(p, a, c)
  BY <1>1 DEF OnLink, OnTheWire, OnChannel, MessagesIn, Elements, Precedes
<1>6. (LinkCarriesSent /\ SeenWasSent /\ SeenFirst /\ WireFirst)'
  BY <1>1, <1>4, <1>5 DEF OrderInv, LinkCarriesSent, SeenWasSent, SeenFirst, WireFirst
<1>7. (FramesInOrder /\ ChannelInOrder)'
  BY <1>1, <1>5 DEF OrderInv, FramesInOrder, ChannelInOrder
<1>8. InHandNext'
  <2> SUFFICES ASSUME NEW r \in Pods, NEW u \in todo'[r], NEW a \in Elements(inbox'[r][u]),
                      Origin[a] = Origin[doing[r]], Origin[a] # r
               PROVE  Precedes(Origin[a], a, doing[r])
    BY <1>1, <1>5 DEF InHandNext
  <2>1. u \in todo[r] /\ (r # q \/ u # v) /\ u \in Users
    BY <1>1 DEF Jobs
  <2>2. inbox'[r][u] = inbox[r][u]
    BY <1>3, <2>1
  <2> QED
    BY <2>1, <2>2 DEF OrderInv, InHandNext
<1>9. ASSUME NEW a \in Elements(b), Origin[a] = Origin[m], Origin[a] # q
      PROVE  Before(sent[Origin[a]], a, m)
  BY <1>0, <1>9 DEF OrderInv, InHandNext, Precedes, m, b
<1>10. OrderKept'
  <2> SUFFICES ASSUME NEW r \in Pods, NEW u \in Users,
                      NEW i \in DOMAIN inbox'[r][u], NEW j \in DOMAIN inbox'[r][u], i < j,
                      Origin[inbox'[r][u][i]] = Origin[inbox'[r][u][j]],
                      Origin[inbox'[r][u][i]] # r
               PROVE  Before(sent[Origin[inbox'[r][u][i]]], inbox'[r][u][i], inbox'[r][u][j])
    BY <1>1 DEF OrderKept
  <2>1. CASE r # q \/ u # v
    <3>1. inbox'[r][u] = inbox[r][u]
      BY <1>3, <2>1
    <3> QED
      BY <3>1 DEF OrderInv, OrderKept
  <2>2. CASE r = q /\ u = v
    <3>1. \A l \in Nat : /\ \A k \in 1 .. l + 1 : k \notin 1 .. l => k = l + 1
                         /\ \A k, n \in 1 .. l + 1 : k < n => k \in 1 .. l
      OBVIOUS
    <3>2. i \in DOMAIN b /\ inbox'[q][v][i] = b[i] /\ b[i] \in Elements(b)
      BY <1>2, <1>3, <2>2, <3>1 DEF Elements
    <3>3. CASE j \in DOMAIN b
      <4>1. inbox'[q][v][j] = b[j]
        BY <1>2, <1>3, <3>3
      <4> QED
        BY <1>0, <2>2, <3>2, <3>3, <4>1 DEF OrderInv, OrderKept, b
    <3>4. CASE j \notin DOMAIN b
      <4>1. inbox'[q][v][j] = m
        BY <1>2, <1>3, <2>2, <3>1, <3>4
      <4> QED
        BY <1>9, <2>2, <3>2, <4>1
    <3> QED
      BY <3>3, <3>4
  <2> QED
    BY <2>1, <2>2
<1> QED
  BY <1>6, <1>7, <1>8, <1>10 DEF OrderInv

\* Every step keeps the order.
LEMMA NextOrderInv == TypeInv /\ OrderInv /\ [Next]_vars => OrderInv'
<1> SUFFICES ASSUME TypeInv, OrderInv, [Next]_vars
             PROVE  OrderInv'
  OBVIOUS
<1> USE DEF mesh, request, job, cache, history
<1>1. ASSUME NEW m \in Messages, Redirect(m)
      PROVE  OrderInv'
  BY <1>1, RedirectedInOrder
<1>2. ASSUME NEW m \in Messages, Pull(m) \/ PullDone(m)
      PROVE  OrderInv'
  <2>1. /\ UNCHANGED <<inbox, channel, wire, sent>>
        /\ \A q \in Pods : doing'[q] = doing[q] /\ todo'[q] = todo[q]
    <3>1. \A q \in Pods : q # m /\ q \in Jobs
      BY DeliveryAssumption DEF Jobs
    <3> QED
      BY <1>2, <3>1 DEF Pull, PullDone, TypeInv, TypeOK
  <2> QED
    BY <2>1, OrderUntouched
<1>3. ASSUME NEW m \in Messages, Store(m)
      PROVE  OrderInv'
  BY <1>3, OrderUntouched DEF Store
<1>4. ASSUME NEW p \in Pods, NEW u \in Users, Connect(p, u) \/ Disconnect(p, u)
      PROVE  OrderInv'
  BY <1>4, OrderUntouched DEF Connect, Disconnect
<1>5. ASSUME NEW pq \in Pods \X Pods, WritePump(pq)
      PROVE  OrderInv'
  BY <1>5, WrittenInOrder
<1>6. ASSUME NEW pq \in Pods \X Pods, LinkFails(pq)
      PROVE  OrderInv'
  <2>1. /\ UNCHANGED <<inbox, doing, todo, sent>>
        /\ channel' = [channel EXCEPT ![pq] = <<>>] /\ wire' = [wire EXCEPT ![pq] = <<>>]
    BY <1>6 DEF LinkFails
  <2>2. \A l \in Pods \X Pods : Shorter(wire'[l], wire[l]) /\ Shorter(channel'[l], channel[l])
    BY <2>1, ShorterQueue DEF TypeInv, TypeOK
  <2> QED
    BY <2>1, <2>2, LostKeepsOrder
<1>7. ASSUME NEW pq \in Pods \X Pods, LinkRestored(pq)
      PROVE  OrderInv'
  BY <1>7, OrderUntouched DEF LinkRestored
<1>8. ASSUME NEW p \in Pods, NEW q \in Pods, HandleBroadcast(p, q)
      PROVE  OrderInv'
  BY <1>8, HandledInOrder
<1>9. ASSUME NEW p \in Pods, NEW q \in Pods, DropFrame(p, q)
      PROVE  OrderInv'
  <2>1. /\ UNCHANGED <<inbox, channel, doing, todo, sent>>
        /\ wire[<<p, q>>] # <<>> /\ wire' = [wire EXCEPT ![<<p, q>>] = Tail(@)]
    BY <1>9 DEF DropFrame
  <2>2. \A l \in Pods \X Pods : Shorter(wire'[l], wire[l]) /\ Shorter(channel'[l], channel[l])
    BY <2>1, ShorterQueue DEF TypeInv, TypeOK
  <2> QED
    BY <2>1, <2>2, LostKeepsOrder
<1>10. ASSUME NEW j \in Jobs, NEW u \in Users, DeliverRemote(j, u)
       PROVE  OrderInv'
  BY <1>10, DeliveredInOrder
<1>11. ASSUME NEW j \in Jobs, NEW u \in Users, CacheGet(j, u)
       PROVE  OrderInv'
  <2>1. /\ UNCHANGED <<inbox, channel, wire, sent, doing>>
        /\ \A q \in Pods : todo'[q] \subseteq todo[q]
    BY <1>11 DEF CacheGet, Take, TypeInv, TypeOK, Jobs
  <2> QED
    BY <2>1, OrderUntouched
<1>12. ASSUME NEW j \in Jobs, CacheSet(j)
       PROVE  OrderInv'
  BY <1>12, OrderUntouched DEF CacheSet
<1>13. ASSUME NEW j \in Jobs, CacheSetFails(j)
       PROVE  OrderInv'
  <2>1. /\ UNCHANGED <<inbox, channel, wire, sent>>
        /\ \A q \in Pods : doing'[q] = doing[q] /\ todo'[q] = todo[q]
    BY <1>13, DeliveryAssumption DEF CacheSetFails, TypeInv, TypeOK, Jobs
  <2> QED
    BY <2>1, OrderUntouched
<1>14. ASSUME NEW q \in Pods, BroadcastDone(q)
       PROVE  OrderInv'
  <2>1. /\ UNCHANGED <<inbox, channel, wire, sent, todo>> /\ todo[q] = {}
        /\ \A r \in Pods : doing'[r] = IF r = q THEN NoMessage ELSE doing[r]
    BY <1>14 DEF BroadcastDone, Unlock, TypeInv, TypeOK, Jobs
  <2> QED
    BY <2>1, OrderUntouched
<1>15. ASSUME NEW u \in Users, FetchGet(u) \/ FetchDel(u)
       PROVE  OrderInv'
  BY <1>15, OrderUntouched DEF FetchGet, FetchDel
<1>16. CASE UNCHANGED vars
  BY <1>16, OrderUntouched DEF vars
<1> QED
  BY <1>1, <1>2, <1>3, <1>4, <1>5, <1>6, <1>7, <1>8, <1>9, <1>10, <1>11, <1>12, <1>13,
     <1>14, <1>15, <1>16
     DEF Next, SendStep, JobStep, Receive

\* The messages of one pod reach the sockets of another pod in the order in which
\* the first one redirected them, whatever frames and links are lost
\* (messages.go:2179, server.go:380 and 655).
THEOREM OrderAlwaysKept == Spec => []OrderKept
<1>1. OrderInv => OrderKept
  BY DEF OrderInv
<1> QED
  BY <1>1, InitOrderInv, NextOrderInv, DeliveryTypeInvariant, PTL DEF Spec

-----------------------------------------------------------------------------
(* Copies in the cached lists *)

Copies(list, m) == Cardinality({i \in DOMAIN list : list[i] = m})

\* Who may add a message to a list: the handler of a pull message, or the pods
\* to which a pushed one is passed.
Adders(m) == IF Mode[m] = "pull" THEN {m} ELSE Pods \ {Origin[m]}

\* Whether j has yet to add the message to the user's list.
Ahead(m, u, j) ==
  \/ stage[m] = "new"
  \/ j \in Pods /\ m \in OnLink(<<Origin[m], j>>)
  \/ doing[j] = m /\ (u \in todo[j] \/ u = writing[j])

Over(m, u) == {j \in Adders(m) : ~Ahead(m, u, j)}

\* A pod redirects a message once, and only one that is pushed.
SentOnce ==
  \A p \in Pods :
    /\ \A i, j \in DOMAIN sent[p] : i < j => sent[p][i] # sent[p][j]
    /\ \A m \in Elements(sent[p]) : Mode[m] = "push" /\ stage[m] # "new"

\* What a job works on is not its own, if it is a pod, and is itself otherwise;
\* it does not come back to the user whose list it writes.
JobsOK ==
  \A j \in Jobs :
    /\ writing[j] \notin todo[j]
    /\ doing[j] # NoMessage =>
         IF j \in Pods THEN Origin[doing[j]] # j
                       ELSE doing[j] = j /\ Mode[j] = "pull"

\* The list of a user has no more copies than there are jobs that are over with
\* it, and neither has a list that a job has read and is about to write.
ListsBounded ==
  \A u \in Users, m \in Messages :
    /\ Copies(userMessages[u], m) <= Cardinality(Over(m, u))
    /\ \A j \in Jobs : writing[j] = u => Copies(snapshot[j], m) <= Cardinality(Over(m, u))

CopiesInv == SentOnce /\ JobsOK /\ ListsBounded

-----------------------------------------------------------------------------
(* Counting *)

\* What a list counts of a message: none if it is empty, one more for each that
\* is appended.
LEMMA CopiesOf ==
  ASSUME NEW m, NEW s \in Seq(Messages)
  PROVE  /\ Copies(s, m) \in Nat
         /\ Copies(<<>>, m) = 0
         /\ \A x \in Messages :
              Copies(Append(s, x), m) = IF x = m THEN Copies(s, m) + 1 ELSE Copies(s, m)
<1> DEFINE I(t) == {i \in DOMAIN t : t[i] = m}
<1>1. DOMAIN s = 1 .. Len(s) /\ Len(s) \in Nat
  BY LenProperties
<1>2. IsFiniteSet(I(s)) /\ Cardinality(I(s)) \in Nat
  <2>1. IsFiniteSet(1 .. Len(s))
    BY <1>1, FS_Interval
  <2>2. I(s) \in SUBSET (1 .. Len(s))
    BY <1>1
  <2> QED
    BY <2>1, <2>2, FS_Subset, FS_CardinalityType
<1>3. Copies(<<>>, m) = 0
  <2>1. I(<<>>) = {}
    OBVIOUS
  <2> QED
    BY <2>1, FS_EmptySet DEF Copies
<1>4. ASSUME NEW x \in Messages
      PROVE  Copies(Append(s, x), m) = IF x = m THEN Copies(s, m) + 1 ELSE Copies(s, m)
  <2> DEFINE t == Append(s, x)
  <2>1. /\ DOMAIN t = 1 .. Len(s) + 1
        /\ \A i \in DOMAIN s : t[i] = s[i]
        /\ t[Len(s) + 1] = x
    BY AppendOne
  <2> HIDE DEF t
  <2>2. CASE x = m
    <3>1. I(t) = I(s) \cup {Len(s) + 1}
      BY <1>1, <2>1, <2>2
    <3>2. Len(s) + 1 \notin I(s)
      BY <1>1
    <3>3. Cardinality(I(s) \cup {Len(s) + 1}) = Cardinality(I(s)) + 1
      BY <1>2, <3>2, FS_AddElement
    <3> QED
      BY <2>2, <3>1, <3>3 DEF Copies, t
  <2>3. CASE x # m
    <3>1. I(t) = I(s)
      BY <1>1, <2>1, <2>3
    <3> QED
      BY <2>3, <3>1 DEF Copies, t
  <2> QED
    BY <2>2, <2>3
<1> QED
  BY <1>2, <1>3, <1>4 DEF Copies

\* There are finitely many jobs that may add a message: one, or all pods but one.
LEMMA AddersFinite ==
  ASSUME NEW m \in Messages
  PROVE  /\ IsFiniteSet(Adders(m))
         /\ Cardinality(Adders(m)) = IF Mode[m] = "pull" THEN 1 ELSE Cardinality(Pods) - 1
         /\ Adders(m) \subseteq Jobs
<1>1. CASE Mode[m] = "pull"
  BY <1>1, FS_Singleton DEF Adders, Jobs
<1>2. CASE Mode[m] # "pull"
  <2>1. Origin[m] \in Pods /\ IsFiniteSet(Pods)
    BY DeliveryAssumption
  <2>2. /\ IsFiniteSet(Pods \ {Origin[m]})
        /\ Cardinality(Pods \ {Origin[m]}) = Cardinality(Pods) - 1
    BY <2>1, FS_RemoveElement
  <2> QED
    BY <1>2, <2>2 DEF Adders, Jobs
<1> QED
  BY <1>1, <1>2

\* If all who were over with a message still are, so is their number at least;
\* and it is more, if somebody joins them.
LEMMA OverGrows ==
  ASSUME NEW m \in Messages, NEW u, Over(m, u) \subseteq Over(m, u)'
  PROVE  /\ Cardinality(Over(m, u)) \in Nat /\ Cardinality(Over(m, u)') \in Nat
         /\ Cardinality(Over(m, u)) <= Cardinality(Over(m, u)')
         /\ \A j \in Over(m, u)' : j \notin Over(m, u) =>
              Cardinality(Over(m, u)) + 1 <= Cardinality(Over(m, u)')
<1> DEFINE S == Over(m, u)
           T == Over(m, u)'
<1>1. S \subseteq Adders(m) /\ T \subseteq Adders(m)
  BY DEF Over, Adders
<1>2. IsFiniteSet(S) /\ IsFiniteSet(T)
  BY <1>1, AddersFinite, FS_Subset
<1>3. S \subseteq T
  OBVIOUS
<1> HIDE DEF S, T
<1>4. /\ Cardinality(S) \in Nat /\ Cardinality(T) \in Nat
      /\ Cardinality(S) <= Cardinality(T)
  BY <1>2, <1>3, FS_Subset, FS_CardinalityType
<1>5. ASSUME NEW j \in T, j \notin S
      PROVE  Cardinality(S) + 1 <= Cardinality(T)
  <2>1. Cardinality(S \cup {j}) = Cardinality(S) + 1
    BY <1>2, <1>5, FS_AddElement
  <2>2. S \cup {j} \in SUBSET T
    BY <1>3, <1>5
  <2>3. Cardinality(S \cup {j}) <= Cardinality(T)
    BY <1>2, <2>2, FS_Subset
  <2> QED
    BY <2>1, <2>3
<1> QED
  BY <1>4, <1>5 DEF S, T

-----------------------------------------------------------------------------
(* Steps *)

\* handleBroadcastNotification takes its message from the link (server.go:655).
LEMMA HandledMessage ==
  ASSUME TypeInv, OrderInv, NEW p \in Pods, NEW q \in Pods, HandleBroadcast(p, q)
  PROVE  \E m \in Messages :
           /\ m \in OnLink(<<p, q>>) /\ p # q /\ Origin[m] = p
           /\ doing[q] = NoMessage /\ doing' = [doing EXCEPT ![q] = m]
           /\ \A j \in Jobs \ {q} : todo'[j] = todo[j]
<1> DEFINE w == wire[<<p, q>>]
           m == Head(w)[1].msg
<1>1. w \in Seq(Frames) /\ w # <<>> /\ <<p, q>> \in Pods \X Pods
  BY DEF HandleBroadcast, Frames, TypeInv, TypeOK
<1>2. Head(w) \in Seq(Packets) /\ Len(Head(w)) = 1 /\ Head(w) \in Elements(w)
  BY <1>1, TakeFirst DEF Frames, HandleBroadcast, Decodes
<1>3. /\ doing' = [doing EXCEPT ![q] = m] /\ doing[q] = NoMessage
      /\ \A j \in Jobs \ {q} : todo'[j] = todo[j]
  BY DEF HandleBroadcast, MuFree, TypeInv, TypeOK
<1> HIDE DEF w
<1>4. 1 \in DOMAIN Head(w)
  <2>1. DOMAIN Head(w) = 1 .. 1
    BY <1>2, LenProperties
  <2> QED
    BY <2>1
<1>5. m \in MessagesIn(Head(w))
  BY <1>4 DEF MessagesIn, Elements
<1> HIDE DEF m
<1>6. m \in OnLink(<<p, q>>)
  BY <1>2, <1>5 DEF OnLink, OnTheWire, w
<1>7. p # q /\ m \in Messages /\ Origin[m] = p
  BY <1>6 DEF OrderInv, LinkCarriesSent
<1> QED
  BY <1>3, <1>6, <1>7

\* What is on a link was there before, or has just been redirected to it.
LEMMA LinkedBefore ==
  ASSUME TypeInv, OrderInv, [Next]_vars, NEW pq \in Pods \X Pods, NEW m \in OnLink(pq)'
  PROVE  m \in OnLink(pq) \/ Redirect(m)
<1> USE DEF TypeInv, TypeOK, mesh, request, job, cache, history
<1>1. CASE UNCHANGED <<channel, wire>>
  BY <1>1 DEF OnLink, OnTheWire, OnChannel
<1>2. ASSUME UNCHANGED sent,
             \A l \in Pods \X Pods : Shorter(wire'[l], wire[l]) /\ Shorter(channel'[l], channel[l])
      PROVE  m \in OnLink(pq)
  BY <1>2, OrderOnShorterLinks
<1>3. ASSUME NEW l \in Pods \X Pods, LinkFails(l)
      PROVE  m \in OnLink(pq)
  <2>1. /\ UNCHANGED sent
        /\ channel' = [channel EXCEPT ![l] = <<>>] /\ wire' = [wire EXCEPT ![l] = <<>>]
    BY <1>3 DEF LinkFails
  <2> QED
    BY <1>2, <2>1, ShorterQueue
<1>4. ASSUME NEW p \in Pods, NEW q \in Pods, Receive(p, q)
      PROVE  m \in OnLink(pq)
  <2>1. /\ UNCHANGED <<channel, sent>>
        /\ wire[<<p, q>>] # <<>> /\ wire' = [wire EXCEPT ![<<p, q>>] = Tail(@)]
    BY <1>4 DEF Receive, HandleBroadcast, DropFrame
  <2> QED
    BY <1>2, <2>1, ShorterQueue
<1>5. ASSUME NEW l \in Pods \X Pods, WritePump(l)
      PROVE  m \in OnLink(pq)
  <2> DEFINE c == channel[l]
             w == wire[l]
  <2>1. PICK n \in 1 .. Len(c) :
          /\ wire' = [wire EXCEPT ![l] = Append(w, SubSeq(c, 1, n))]
          /\ channel' = [channel EXCEPT ![l] = SubSeq(c, n + 1, Len(c))]
    BY <1>5 DEF WritePump, FrameSizes
  <2> DEFINE f == SubSeq(c, 1, n)
             r == SubSeq(c, n + 1, Len(c))
  <2>2. c \in Seq(Packets) /\ w \in Seq(Frames)
    BY DEF Frames
  <2> HIDE DEF c, w
  <2>3. f \in Seq(Packets) \ {<<>>} /\ Elements(c) = Elements(f) \cup Elements(r)
    BY ONLY <2>2, n \in 1 .. Len(c), CutFrame
  <2>5. /\ wire'[l] = Append(w, f) /\ channel'[l] = r
        /\ \A k \in (Pods \X Pods) \ {l} : wire'[k] = wire[k] /\ channel'[k] = channel[k]
    BY <2>1
  <2> HIDE DEF f, r
  <2>4. Elements(Append(w, f)) = Elements(w) \cup {f}
    <3>1. f \in Frames
      BY <2>3 DEF Frames
    <3> QED
      BY ONLY <2>2, <3>1, AppendOne
  <2>6. CASE pq = l
    <3>1. OnTheWire(l)' = OnTheWire(l) \cup MessagesIn(f)
      BY <2>4, <2>5 DEF OnTheWire, w
    <3>2. OnChannel(l) = MessagesIn(f) \cup MessagesIn(r)
      BY <2>3 DEF OnChannel, MessagesIn, c
    <3>3. OnChannel(l)' = MessagesIn(r)
      BY <2>5 DEF OnChannel
    <3> QED
      BY <2>6, <3>1, <3>2, <3>3 DEF OnLink
  <2>7. CASE pq # l
    BY <2>5, <2>7 DEF OnLink, OnTheWire, OnChannel, MessagesIn
  <2> QED
    BY <2>6, <2>7
<1>6. ASSUME NEW n \in Messages, Redirect(n)
      PROVE  m \in OnLink(pq) \/ m = n
  <2> DEFINE packet == [msg |-> n, target |->
                          Remaining(Receivers[n], Receivers[n] \cap online[Origin[n]])]
  <2>1. packet \in Packets /\ packet.msg = n
    BY DeliveryAssumption DEF Packets, Remaining
  <2>2. UNCHANGED wire /\ channel'[pq] \in {channel[pq], Append(channel[pq], packet)}
    BY <1>6 DEF Redirect, SendTo
  <2> HIDE DEF packet
  <2>3. Elements(channel'[pq]) \subseteq Elements(channel[pq]) \cup {packet}
    <3>1. channel[pq] \in Seq(Packets)
      OBVIOUS
    <3>2. Elements(Append(channel[pq], packet)) = Elements(channel[pq]) \cup {packet}
      BY ONLY <2>1, <3>1, AppendOne
    <3> QED
      BY <2>2, <3>2
  <2> QED
    BY <2>1, <2>2, <2>3 DEF OnLink, OnTheWire, OnChannel, MessagesIn
<1>7. CASE \E n \in Messages : Redirect(n)
  BY <1>6, <1>7
<1> QED
  BY <1>1, <1>3, <1>4, <1>5, <1>7
     DEF Next, SendStep, JobStep, Connect, Disconnect, Pull, PullDone, Store,
         LinkRestored, DeliverRemote, CacheGet, CacheSet, CacheSetFails,
         BroadcastDone, FetchGet, FetchDel, vars

\* No handler begins again.
LEMMA NewBefore ==
  ASSUME TypeInv, [Next]_vars, NEW m \in Messages, stage'[m] = "new"
  PROVE  stage[m] = "new"
<1> USE DEF TypeInv, TypeOK, mesh, request, job, cache, history
<1>1. CASE UNCHANGED stage
  BY <1>1
<1>2. ASSUME NEW n \in Messages, Redirect(n) \/ Pull(n) \/ PullDone(n) \/ Store(n)
      PROVE  stage[m] = "new"
  BY <1>2 DEF Redirect, Pull, PullDone, Store
<1>3. ASSUME NEW j \in Jobs, CacheSetFails(j)
      PROVE  stage[m] = "new"
  BY <1>3 DEF CacheSetFails
<1> QED
  BY <1>1, <1>2, <1>3
     DEF Next, SendStep, JobStep, Receive, Connect, Disconnect, WritePump, LinkFails,
         LinkRestored, HandleBroadcast, DropFrame, DeliverRemote, CacheGet, CacheSet,
         BroadcastDone, FetchGet, FetchDel, vars

\* Who has yet to add a message had it yet to add before.
LEMMA AheadBefore ==
  ASSUME TypeInv, OrderInv, JobsOK, [Next]_vars,
         NEW m \in Messages, NEW u \in Users, NEW j \in Adders(m), Ahead(m, u, j)'
  PROVE  Ahead(m, u, j)
<1>4. \A p, q \in Pods : HandleBroadcast(p, q) =>
        \E n \in Messages : /\ n \in OnLink(<<p, q>>) /\ Origin[n] = p
                            /\ doing' = [doing EXCEPT ![q] = n]
  <2> SUFFICES ASSUME NEW p \in Pods, NEW q \in Pods, HandleBroadcast(p, q)
               PROVE  \E n \in Messages : /\ n \in OnLink(<<p, q>>) /\ Origin[n] = p
                                          /\ doing' = [doing EXCEPT ![q] = n]
    OBVIOUS
  <2> QED
    BY ONLY TypeInv, OrderInv, HandleBroadcast(p, q), p \in Pods, q \in Pods, HandledMessage
<1> USE DEF TypeInv, TypeOK, mesh, request, job, cache, history
<1>0. /\ j \in Jobs /\ m # NoMessage /\ u # NoUser
      /\ j \in Pods => <<Origin[m], j>> \in Pods \X Pods
  <2>1. m # NoMessage /\ u # NoUser /\ Origin[m] \in Pods
    BY DeliveryAssumption
  <2>2. j \in Jobs
    BY AddersFinite
  <2> QED
    BY <2>1, <2>2
<1>1. CASE stage'[m] = "new"
  BY <1>1, NewBefore DEF Ahead
<1>2. CASE j \in Pods /\ (m \in OnLink(<<Origin[m], j>>))'
  BY <1>0, <1>2, LinkedBefore DEF Ahead, Redirect
<1>3. CASE doing'[j] = m /\ (u \in todo'[j] \/ u = writing'[j])
  <2>1. CASE UNCHANGED <<doing, todo, writing>>
    BY <1>3, <2>1 DEF Ahead
  <2>2. ASSUME NEW n \in Messages, Pull(n) \/ PullDone(n)
        PROVE  Ahead(m, u, j)
    BY <1>0, <1>3, <2>2 DEF Ahead, Pull, PullDone, Jobs
  <2>3. ASSUME NEW p \in Pods, NEW q \in Pods, HandleBroadcast(p, q)
        PROVE  Ahead(m, u, j)
    <3>1. CASE j = q
      <4>1. PICK n \in Messages : /\ n \in OnLink(<<p, q>>) /\ Origin[n] = p
                                  /\ doing' = [doing EXCEPT ![q] = n]
        BY <2>3, <1>4
      <4>2. n = m
        BY <1>0, <1>3, <3>1, <4>1
      <4> QED
        BY <3>1, <4>1, <4>2 DEF Ahead
    <3>2. CASE j # q
      BY <1>0, <1>3, <2>3, <3>2 DEF Ahead, HandleBroadcast
    <3> QED
      BY <3>1, <3>2
  <2>4. ASSUME NEW k \in Jobs, NEW v \in Users, DeliverRemote(k, v) \/ CacheGet(k, v)
        PROVE  Ahead(m, u, j)
    <3>1. /\ UNCHANGED doing /\ todo' = [todo EXCEPT ![k] = @ \ {v}] /\ v \in todo[k]
          /\ writing' = writing \/ writing' = [writing EXCEPT ![k] = v]
      BY <2>4 DEF DeliverRemote, CacheGet, Take
    <3>2. doing[j] = m /\ (u \in todo[j] \/ u = writing[j])
      BY <1>0, <1>3, <3>1
    <3> QED
      BY <3>2 DEF Ahead
  <2>5. ASSUME NEW k \in Jobs, CacheSet(k) \/ CacheSetFails(k)
        PROVE  Ahead(m, u, j)
    BY <1>0, <1>3, <2>5 DEF Ahead, CacheSet, CacheSetFails
  <2>6. ASSUME NEW q \in Pods, BroadcastDone(q)
        PROVE  Ahead(m, u, j)
    BY <1>0, <1>3, <2>6 DEF Ahead, BroadcastDone, Unlock, Jobs
  <2> QED
    BY <2>1, <2>2, <2>3, <2>4, <2>5, <2>6
       DEF Next, SendStep, JobStep, Receive, Connect, Disconnect, Redirect, Store,
           WritePump, LinkFails, LinkRestored, DropFrame, FetchGet, FetchDel, vars
<1> QED
  BY <1>1, <1>2, <1>3 DEF Ahead

\* A job that writes a list has yet to add its message, and has done so then: no
\* link has the message a second time.
LEMMA AddedOnce ==
  ASSUME TypeInv, OrderInv, SentOnce, JobsOK, NEW j \in Jobs, CacheSet(j),
         NEW m, NEW u, m = doing[j], u = writing[j]
  PROVE  /\ m \in Messages /\ u \in Users /\ j \in Adders(m)
         /\ Ahead(m, u, j) /\ ~Ahead(m, u, j)'
<1> USE DEF TypeInv, TypeOK
<1>1. m \in Messages /\ u \in Users /\ u # NoUser /\ u \notin todo[j] /\ doing[j] = m
  BY DEF CacheSet, JobsOK
<1>2. /\ UNCHANGED <<stage, channel, wire, doing, todo>> /\ writing'[j] = NoUser
  BY DEF CacheSet, mesh, request
<1>3. m # NoMessage
  BY <1>1, DeliveryAssumption
<1>4. CASE j \in Pods
  <2>1. Origin[m] # j /\ Origin[m] \in Pods
    BY <1>1, <1>3, <1>4, DeliveryAssumption DEF JobsOK
  <2>2. m \in Seen(Origin[m], j)
    BY <1>1, <2>1 DEF Seen
  <2>3. m \in Elements(sent[Origin[m]])
    BY <1>4, <2>1, <2>2 DEF OrderInv, SeenWasSent
  <2>4. Mode[m] = "push" /\ stage[m] # "new"
    BY <2>1, <2>3 DEF SentOnce
  <2>5. ~Precedes(Origin[m], m, m)
    BY <2>1 DEF SentOnce, Precedes, Before
  <2>6. m \notin OnLink(<<Origin[m], j>>)
    BY <1>4, <2>1, <2>2, <2>5 DEF OrderInv, SeenFirst
  <2>7. OnLink(<<Origin[m], j>>)' = OnLink(<<Origin[m], j>>)
    BY <1>2 DEF OnLink, OnTheWire, OnChannel
  <2>8. j \in Adders(m) /\ Ahead(m, u, j)
    BY <1>4, <2>1, <2>4 DEF Adders, Ahead
  <2>9. ~Ahead(m, u, j)'
    BY <1>1, <1>2, <1>3, <2>4, <2>6, <2>7 DEF Ahead
  <2> QED
    BY <1>1, <2>8, <2>9
<1>5. CASE j \notin Pods
  <2>1. m = j /\ Mode[j] = "pull" /\ j \in Messages
    BY <1>3, <1>5 DEF JobsOK, Jobs
  <2>2. stage[m] # "new"
    BY <1>1, <1>3, <2>1 DEF Idle
  <2>3. j \in Adders(m) /\ Ahead(m, u, j)
    BY <2>1 DEF Adders, Ahead
  <2>4. ~Ahead(m, u, j)'
    BY <1>1, <1>2, <1>3, <1>5, <2>2 DEF Ahead
  <2> QED
    BY <1>1, <2>3, <2>4
<1> QED
  BY <1>4, <1>5

\* Every step keeps what a pod has sent distinct.
LEMMA NextSentOnce == TypeInv /\ SentOnce /\ [Next]_vars => SentOnce'
<1> SUFFICES ASSUME TypeInv, SentOnce, [Next]_vars
             PROVE  SentOnce'
  OBVIOUS
<1> USE DEF TypeInv, TypeOK, mesh, request, job, cache, history
<1>1. \A m \in Messages : stage'[m] = "new" => stage[m] = "new"
  BY NewBefore
<1>2. \A p \in Pods : Elements(sent[p]) \subseteq Messages
  BY LenProperties DEF Elements
<1>3. CASE UNCHANGED sent
  BY <1>1, <1>2, <1>3 DEF SentOnce
<1>4. ASSUME NEW n \in Messages, Redirect(n)
      PROVE  SentOnce'
  <2>1. /\ stage[n] = "new" /\ stage'[n] = "sent" /\ Mode[n] = "push"
        /\ sent' = [sent EXCEPT ![Origin[n]] = Append(@, n)]
    BY <1>4 DEF Redirect
  <2> SUFFICES ASSUME NEW p \in Pods
               PROVE  /\ \A i, k \in DOMAIN sent'[p] : i < k => sent'[p][i] # sent'[p][k]
                      /\ \A m \in Elements(sent'[p]) : Mode[m] = "push" /\ stage'[m] # "new"
    BY DEF SentOnce
  <2>2. CASE p # Origin[n]
    <3>1. sent'[p] = sent[p]
      BY <2>1, <2>2
    <3> QED
      BY <1>1, <1>2, <3>1 DEF SentOnce
  <2>3. CASE p = Origin[n]
    <3> DEFINE s == sent[p]
    <3>1. sent'[p] = Append(s, n) /\ s \in Seq(Messages)
      BY <2>1, <2>3
    <3>2. n \notin Elements(s)
      BY <2>1 DEF SentOnce
    <3> HIDE DEF s
    <3>3. /\ DOMAIN s = 1 .. Len(s) /\ DOMAIN Append(s, n) = 1 .. Len(s) + 1 /\ Len(s) \in Nat
          /\ \A i \in DOMAIN s : Append(s, n)[i] = s[i]
          /\ Append(s, n)[Len(s) + 1] = n
          /\ Elements(Append(s, n)) = Elements(s) \cup {n}
      BY <3>1, AppendOne, LenProperties
    <3>4. ASSUME NEW i \in DOMAIN Append(s, n), NEW k \in DOMAIN Append(s, n), i < k
          PROVE  Append(s, n)[i] # Append(s, n)[k]
      <4>1. i \in DOMAIN s
        BY <3>3, <3>4
      <4>2. CASE k \in DOMAIN s
        <5>1. s[i] # s[k]
          BY <3>4, <4>1, <4>2 DEF SentOnce, s
        <5> QED
          BY <3>3, <4>1, <4>2, <5>1
      <4>3. CASE k = Len(s) + 1
        BY <3>2, <3>3, <4>1, <4>3 DEF Elements
      <4> QED
        BY <3>3, <4>2, <4>3
    <3>5. \A m \in Elements(Append(s, n)) : Mode[m] = "push" /\ stage'[m] # "new"
      BY <1>1, <1>2, <2>1, <3>3 DEF SentOnce, s
    <3> QED
      BY <3>1, <3>4, <3>5
  <2> QED
    BY <2>2, <2>3
<1> QED
  BY <1>3, <1>4
     DEF Next, SendStep, JobStep, Receive, Connect, Disconnect, Pull, PullDone, Store,
         WritePump, LinkFails, LinkRestored, HandleBroadcast, DropFrame, DeliverRemote,
         CacheGet, CacheSet, CacheSetFails, BroadcastDone, FetchGet, FetchDel, vars

\* Every step keeps the jobs to what is theirs.
LEMMA NextJobsOK == TypeInv /\ OrderInv /\ JobsOK /\ [Next]_vars => JobsOK'
<1> SUFFICES ASSUME TypeInv, OrderInv, JobsOK, [Next]_vars
             PROVE  JobsOK'
  OBVIOUS
<1>7. \A p, q \in Pods : HandleBroadcast(p, q) =>
        \E m \in Messages : /\ Origin[m] # q
                            /\ doing[q] = NoMessage /\ doing' = [doing EXCEPT ![q] = m]
                            /\ \A j \in Jobs \ {q} : todo'[j] = todo[j]
  BY HandledMessage
<1> USE DeliveryAssumption DEF TypeInv, TypeOK, Jobs, mesh, request, job, cache, history
<1>1. CASE UNCHANGED <<doing, todo, writing>>
  BY <1>1 DEF JobsOK
<1>2. ASSUME NEW n \in Messages, Pull(n) \/ PullDone(n)
      PROVE  JobsOK'
  <2>1. /\ UNCHANGED writing /\ writing[n] = NoUser /\ n \notin Pods
        /\ \A j \in Jobs \ {n} : doing'[j] = doing[j] /\ todo'[j] = todo[j]
        /\ doing'[n] \in {n, NoMessage} /\ NoUser \notin todo'[n]
        /\ doing'[n] = n => Mode[n] = "pull"
    <3>1. CASE Pull(n)
      BY <3>1 DEF Pull, Idle
    <3>2. CASE PullDone(n)
      BY <3>2 DEF PullDone
    <3> QED
      BY <1>2, <3>1, <3>2
  <2> SUFFICES ASSUME NEW j \in Jobs
               PROVE  /\ writing'[j] \notin todo'[j]
                      /\ doing'[j] # NoMessage =>
                           IF j \in Pods THEN Origin[doing'[j]] # j
                                         ELSE doing'[j] = j /\ Mode[j] = "pull"
    BY DEF JobsOK
  <2>2. CASE j = n
    BY <2>1, <2>2
  <2>3. CASE j # n
    BY <2>1, <2>3 DEF JobsOK
  <2> QED
    BY <2>2, <2>3
<1>3. ASSUME NEW p \in Pods, NEW q \in Pods, HandleBroadcast(p, q)
      PROVE  JobsOK'
  <2>1. PICK m \in Messages : /\ Origin[m] # q
                              /\ doing[q] = NoMessage /\ doing' = [doing EXCEPT ![q] = m]
                              /\ \A j \in Jobs \ {q} : todo'[j] = todo[j]
    BY <1>3, <1>7
  <2>2. UNCHANGED writing /\ writing[q] = NoUser /\ NoUser \notin todo'[q]
    <3>1. UNCHANGED writing /\ writing[q] = NoUser
      BY <1>3, <2>1 DEF HandleBroadcast
    <3>2. todo' \in [Jobs -> SUBSET Users]
      BY <1>3, NextTypeInv
    <3> QED
      BY <3>1, <3>2
  <2> QED
    BY <2>1, <2>2 DEF JobsOK
<1>4. ASSUME NEW k \in Jobs, NEW v \in Users, DeliverRemote(k, v) \/ CacheGet(k, v)
      PROVE  JobsOK'
  <2>1. /\ UNCHANGED doing /\ todo' = [todo EXCEPT ![k] = @ \ {v}]
        /\ writing' = writing \/ writing' = [writing EXCEPT ![k] = v]
    BY <1>4 DEF DeliverRemote, CacheGet, Take
  <2> QED
    BY <2>1 DEF JobsOK
<1>5. ASSUME NEW k \in Jobs, CacheSet(k) \/ CacheSetFails(k)
      PROVE  JobsOK'
  <2>1. /\ writing' = [writing EXCEPT ![k] = NoUser]
        /\ \A j \in Jobs : todo'[j] \subseteq todo[j] /\ doing'[j] \in {doing[j], NoMessage}
    BY <1>5 DEF CacheSet, CacheSetFails
  <2>2. NoUser \notin todo[k]
    OBVIOUS
  <2> QED
    BY <2>1, <2>2 DEF JobsOK
<1>6. ASSUME NEW q \in Pods, BroadcastDone(q)
      PROVE  JobsOK'
  BY <1>6 DEF JobsOK, BroadcastDone, Unlock
<1> QED
  BY <1>1, <1>2, <1>3, <1>4, <1>5, <1>6
     DEF Next, SendStep, JobStep, Receive, Connect, Disconnect, Redirect, Store,
         WritePump, LinkFails, LinkRestored, DropFrame, FetchGet, FetchDel, vars

\* Every step keeps the number of copies within that of the jobs that are over:
\* the one that writes a list joins them.
LEMMA NextListsBounded ==
  ASSUME TypeInv, OrderInv, CopiesInv, [Next]_vars
  PROVE  ListsBounded'
<1> USE DEF TypeInv, TypeOK, mesh, request, job, cache, history
<1> SUFFICES ASSUME NEW u \in Users, NEW m \in Messages
             PROVE  /\ Copies(userMessages'[u], m) <= Cardinality(Over(m, u)')
                    /\ \A j \in Jobs : writing'[j] = u =>
                         Copies(snapshot'[j], m) <= Cardinality(Over(m, u)')
  BY DEF ListsBounded
<1> DEFINE before == Cardinality(Over(m, u))
           after == Cardinality(Over(m, u)')
<1>1. Over(m, u) \subseteq Over(m, u)'
  BY AheadBefore DEF Over, Adders, CopiesInv
<1>2. /\ before \in Nat /\ after \in Nat /\ before <= after
      /\ \A j \in Over(m, u)' : j \notin Over(m, u) => before + 1 <= after
  BY <1>1, OverGrows
<1> HIDE DEF before, after
<1>3. /\ Copies(userMessages[u], m) \in Nat /\ Copies(userMessages[u], m) <= before
      /\ \A j \in Jobs : Copies(snapshot[j], m) \in Nat
      /\ \A j \in Jobs : writing[j] = u => Copies(snapshot[j], m) <= before
      /\ Copies(<<>>, m) = 0
      /\ u # NoUser
  BY CopiesOf, DeliveryAssumption DEF CopiesInv, ListsBounded, before
<1>4. ASSUME userMessages'[u] \in {userMessages[u], <<>>},
             \A j \in Jobs : writing'[j] = u =>
               \/ writing[j] = u /\ snapshot'[j] = snapshot[j]
               \/ snapshot'[j] \in {userMessages[u], <<>>}
      PROVE  /\ Copies(userMessages'[u], m) <= after
             /\ \A j \in Jobs : writing'[j] = u => Copies(snapshot'[j], m) <= after
  <2>1. Copies(userMessages'[u], m) <= after
    BY <1>2, <1>3, <1>4
  <2>2. ASSUME NEW j \in Jobs, writing'[j] = u
        PROVE  Copies(snapshot'[j], m) <= after
    <3>1. CASE writing[j] = u /\ snapshot'[j] = snapshot[j]
      BY <1>2, <1>3, <3>1
    <3>2. CASE snapshot'[j] = userMessages[u]
      BY <1>2, <1>3, <3>2
    <3>3. CASE snapshot'[j] = <<>>
      BY <1>2, <1>3, <3>3
    <3> QED
      BY <1>4, <2>2, <3>1, <3>2, <3>3
  <2> QED
    BY <2>1, <2>2
<1>5. CASE UNCHANGED <<userMessages, writing, snapshot>>
  BY <1>4, <1>5 DEF after
<1>6. ASSUME NEW k \in Jobs, NEW v \in Users, CacheGet(k, v)
      PROVE  /\ Copies(userMessages'[u], m) <= after
             /\ \A j \in Jobs : writing'[j] = u => Copies(snapshot'[j], m) <= after
  <2>1. /\ UNCHANGED userMessages /\ writing' = [writing EXCEPT ![k] = v]
        /\ \/ snapshot' = [snapshot EXCEPT ![k] = userMessages[v]]
           \/ snapshot' = [snapshot EXCEPT ![k] = <<>>]
    BY <1>6 DEF CacheGet
  <2> QED
    BY <1>4, <2>1
<1>7. ASSUME NEW k \in Jobs, CacheSetFails(k)
      PROVE  /\ Copies(userMessages'[u], m) <= after
             /\ \A j \in Jobs : writing'[j] = u => Copies(snapshot'[j], m) <= after
  BY <1>3, <1>4, <1>7 DEF CacheSetFails
<1>8. ASSUME NEW v \in Users, FetchDel(v)
      PROVE  /\ Copies(userMessages'[u], m) <= after
             /\ \A j \in Jobs : writing'[j] = u => Copies(snapshot'[j], m) <= after
  BY <1>4, <1>8 DEF FetchDel
<1>9. ASSUME NEW k \in Jobs, CacheSet(k)
      PROVE  /\ Copies(userMessages'[u], m) <= after
             /\ \A j \in Jobs : writing'[j] = u => Copies(snapshot'[j], m) <= after
  <2> DEFINE v == writing[k]
             x == doing[k]
  <2>0. \A m1, u1 : m1 = x /\ u1 = v =>
          /\ m1 \in Messages /\ u1 \in Users /\ k \in Adders(m1)
          /\ Ahead(m1, u1, k) /\ ~Ahead(m1, u1, k)'
    BY <1>9, AddedOnce DEF CopiesInv
  <2>1. /\ userMessages' = [userMessages EXCEPT ![v] = Append(snapshot[k], x)]
        /\ writing' = [writing EXCEPT ![k] = NoUser]
        /\ snapshot' = [snapshot EXCEPT ![k] = <<>>]
    BY <1>9 DEF CacheSet
  <2>2. /\ x \in Messages /\ v \in Users
        /\ m = x /\ u = v => k \in Adders(m) /\ Ahead(m, u, k) /\ ~Ahead(m, u, k)'
    BY <2>0
  <2> HIDE DEF v, x
  <2>3. \A j \in Jobs : writing'[j] = u => writing[j] = u /\ snapshot'[j] = snapshot[j]
    BY <1>3, <2>1
  <2>4. CASE u # v
    BY <1>4, <2>1, <2>3, <2>4
  <2>5. CASE u = v
    <3>1. userMessages'[u] = Append(snapshot[k], x) /\ snapshot[k] \in Seq(Messages)
      BY <2>1, <2>5
    <3>2. Copies(userMessages'[u], m) =
            IF x = m THEN Copies(snapshot[k], m) + 1 ELSE Copies(snapshot[k], m)
      BY <2>2, <3>1, CopiesOf
    <3>3. Copies(snapshot[k], m) <= before
      BY <1>3, <2>5 DEF v
    <3>4. x = m => before + 1 <= after
      <4>1. x = m => k \in Over(m, u)' /\ k \notin Over(m, u)
        BY <2>2, <2>5 DEF Over, Adders
      <4> QED
        BY <1>2, <4>1
    <3>5. Copies(userMessages'[u], m) <= after
      BY <1>2, <1>3, <3>2, <3>3, <3>4
    <3>6. \A j \in Jobs : writing'[j] = u => Copies(snapshot'[j], m) <= after
      BY <1>2, <1>3, <2>3
    <3> QED
      BY <3>5, <3>6
  <2> QED
    BY <2>4, <2>5
<1> QED
  BY <1>5, <1>6, <1>7, <1>8, <1>9
     DEF after, Next, SendStep, JobStep, Receive, Connect, Disconnect, Redirect, Pull, PullDone,
         Store, WritePump, LinkFails, LinkRestored, HandleBroadcast, DropFrame,
         DeliverRemote, BroadcastDone, FetchGet, vars

\* No list has a copy when the pods start.
LEMMA InitCopiesInv == Init => CopiesInv
<1> SUFFICES ASSUME Init PROVE CopiesInv
  OBVIOUS
<1>1. SentOnce /\ JobsOK
  BY DeliveryAssumption DEF Init, SentOnce, JobsOK, Elements
<1>2. ASSUME NEW u \in Users, NEW m \in Messages
      PROVE  /\ Copies(userMessages[u], m) <= Cardinality(Over(m, u))
             /\ \A j \in Jobs : writing[j] = u => Copies(snapshot[j], m) <= Cardinality(Over(m, u))
  <2>1. Cardinality(Over(m, u)) \in Nat
    <3>1. Over(m, u) \in SUBSET Adders(m)
      BY DEF Over
    <3> QED
      BY <3>1, AddersFinite, FS_Subset, FS_CardinalityType
  <2>2. Copies(<<>>, m) = 0
    BY CopiesOf, EmptySeq
  <2>3. userMessages[u] = <<>> /\ \A j \in Jobs : snapshot[j] = <<>>
    BY DEF Init
  <2> QED
    BY <2>1, <2>2, <2>3
<1> QED
  BY <1>1, <1>2 DEF CopiesInv, ListsBounded

\* A user's list never has more copies of a message than there are pods other
\* than its origin, and of a pulled one no more than one, although lists are read,
\* written and deleted by several pods at once (messages.go:2141, server.go:684).
THEOREM CopiesAlwaysBounded == Spec => []CopiesBounded
<1>1. TypeInv /\ OrderInv /\ CopiesInv /\ [Next]_vars => CopiesInv'
  BY NextSentOnce, NextJobsOK, NextListsBounded DEF CopiesInv
<1>2. TypeInv /\ CopiesInv => CopiesBounded
  <2> SUFFICES ASSUME TypeInv, CopiesInv, NEW u \in Users, NEW m \in Messages
               PROVE  Copies(userMessages[u], m)
                        <= IF Mode[m] = "pull" THEN 1 ELSE Cardinality(Pods) - 1
    BY DEF CopiesBounded, Copies
  <2>1. Over(m, u) \in SUBSET Adders(m)
    BY DEF Over
  <2>2. /\ Cardinality(Over(m, u)) <= Cardinality(Adders(m))
        /\ Cardinality(Over(m, u)) \in Nat /\ Cardinality(Adders(m)) \in Nat
    BY <2>1, AddersFinite, FS_Subset, FS_CardinalityType
  <2>3. Copies(userMessages[u], m) \in Nat
    BY CopiesOf DEF TypeInv, TypeOK
  <2>4. Copies(userMessages[u], m) <= Cardinality(Over(m, u))
    BY DEF CopiesInv, ListsBounded
  <2>5. Cardinality(Adders(m)) = IF Mode[m] = "pull" THEN 1 ELSE Cardinality(Pods) - 1
    BY AddersFinite
  <2> QED
    BY <2>2, <2>3, <2>4, <2>5
<1> QED
  BY <1>1, <1>2, InitCopiesInv, InitOrderInv, NextOrderInv, DeliveryTypeInvariant, PTL DEF Spec
=============================================================================
