--------------------------- MODULE PeerLinksProofs ---------------------------
(***************************************************************************)
(* A link that is open is in its pod's map, for every number of pods and   *)
(* links, and whatever fails: no disconnect takes out another link than    *)
(* its own, since between two pods there is at most one link that was not  *)
(* closed.                                                                 *)
(***************************************************************************)
EXTENDS PeerLinks, TLAPS

\* Stronger than OpenIsRegistered: a broken link, whose disconnect would delete
\* the entry, is the one in the entry.
UnclosedIsRegistered ==
  \A l \in Links : conn[l] # "closed" =>
    /\ from[l] \in Pods /\ to[l] \in Pods
    /\ instances[from[l]][to[l]] = l

\* What the keeper's range has passed is closed, but for the link in its hands;
\* so nothing that is not closed is forgotten with the old map.
VisitedIsClosed ==
  \A p \in Pods :
    /\ loop[p] = "tearing" => tearing[p] \in Links
    /\ \A l \in visited[p] :
         conn[l] = "closed" \/ (loop[p] = "tearing" /\ tearing[p] = l)

\* A pod that is yet to be dialled has no link that is not closed.
DialsIntoNothing ==
  \A p \in Pods :
    /\ loop[p] \in {"dial", "calling"} =>
         \A l \in Links : conn[l] # "closed" /\ from[l] = p => to[l] \notin todo[p]
    /\ loop[p] = "calling" =>
         /\ callee[p] \in Pods \ todo[p]
         /\ \A l \in Links : conn[l] # "closed" /\ from[l] = p => to[l] # callee[p]

\* A process that does not run has no keeper.
OffIsOff ==
  \A p \in Pods : running[p] = "off" => loop[p] = "off"

LinkInv ==
  TypeOK /\ OffIsOff /\ UnclosedIsRegistered /\ VisitedIsClosed /\ DialsIntoNothing

-----------------------------------------------------------------------------

\* The invariant of the dialled links holds before any pod has started.
LEMMA InitLinkInv == Init => LinkInv
<1> SUFFICES ASSUME Init PROVE LinkInv
  OBVIOUS
<1>1. TypeOK
  BY LinksAssumption DEF Init, TypeOK, NoLinks, Free
<1>2. OffIsOff /\ UnclosedIsRegistered /\ VisitedIsClosed /\ DialsIntoNothing
  BY DEF Init, OffIsOff, UnclosedIsRegistered, VisitedIsClosed, DialsIntoNothing
<1> QED
  BY <1>1, <1>2 DEF LinkInv

\* disconnect of a link that was made: only its own entry goes.
LEMMA OwnEntryOnly ==
  ASSUME LinkInv, NEW l \in Links, CloseAndDelete(l)
  PROVE  /\ conn' \in [Links -> {"open", "broken", "closed"}]
         /\ instances' \in [Pods -> [Pods -> Links \cup {NoLink}]]
         /\ conn'[l] = "closed"
         /\ \A k \in Links : k # l => conn'[k] = conn[k]
         /\ \A k \in Links : k # l /\ conn[k] # "closed" =>
              instances'[from[k]][to[k]] = k
<1> USE DEF LinkInv, TypeOK, UnclosedIsRegistered, CloseAndDelete, Closes
<1>1. CASE conn[l] = "closed"
  BY <1>1
<1>2. CASE conn[l] # "closed"
  <2>1. /\ from[l] \in Pods /\ to[l] \in Pods /\ instances[from[l]][to[l]] = l
        /\ instances' = [instances EXCEPT ![from[l]][to[l]] = NoLink]
    BY <1>2
  <2>2. instances' \in [Pods -> [Pods -> Links \cup {NoLink}]]
    BY <2>1
  <2>3. ASSUME NEW k \in Links, k # l, conn[k] # "closed"
        PROVE  instances'[from[k]][to[k]] = k
    BY <2>1, <2>3
  <2> QED
    BY <2>2, <2>3
<1> QED
  BY <1>1, <1>2

\* When the keeper has passed all the old links, none from its pod is left that
\* is not closed.
LEMMA AllTorn ==
  ASSUME LinkInv, NEW p \in Pods, loop[p] = "tear", Registered(p) \subseteq visited[p]
  PROVE  \A l \in Links : from[l] = p => conn[l] = "closed"
<1> SUFFICES ASSUME NEW l \in Links, from[l] = p, conn[l] # "closed"
             PROVE  FALSE
  OBVIOUS
<1>1. to[l] \in Pods /\ instances[p][to[l]] = l /\ l # NoLink
  BY LinksAssumption DEF LinkInv, UnclosedIsRegistered
<1>2. l \in visited[p]
  BY <1>1 DEF Registered
<1> QED
  BY <1>2 DEF LinkInv, VisitedIsClosed

\* Every step of a link, of a pod and of its keeper keeps it.
LEMMA NextLinkInv == LinkInv /\ [Next]_vars => LinkInv'
<1> SUFFICES ASSUME LinkInv, [Next]_vars
             PROVE  LinkInv'
  OBVIOUS
<1> USE LinksAssumption
    DEF LinkInv, TypeOK, OffIsOff, UnclosedIsRegistered, VisitedIsClosed,
        DialsIntoNothing, keeper, ends, pumps, sender, Free, Serving
<1>1. ASSUME NEW p \in Pods, Start(p)
      PROVE  LinkInv'
  BY <1>1 DEF Start
<1>2. ASSUME NEW p \in Pods, Tick(p)
      PROVE  LinkInv'
  BY <1>2 DEF Tick
<1>3. ASSUME NEW p \in Pods, TickFails(p)
      PROVE  LinkInv'
  BY <1>3 DEF TickFails
<1>4. ASSUME NEW p \in Pods, TearNext(p)
      PROVE  LinkInv'
  BY <1>4 DEF TearNext, Registered
<1>5. ASSUME NEW p \in Pods, Tear(p)
      PROVE  LinkInv'
  <2>1. tearing[p] \in Links /\ CloseAndDelete(tearing[p])
    BY <1>5 DEF Tear
  <2> QED
    BY <1>5, <2>1, OwnEntryOnly DEF Tear
<1>6. ASSUME NEW p \in Pods, Reset(p)
      PROVE  LinkInv'
  <2>1. \A l \in Links : from[l] = p => conn[l] = "closed"
    BY <1>6, AllTorn DEF Reset
  <2>2. TypeOK' /\ OffIsOff'
    BY <1>6 DEF Reset, NoLinks, Others
  <2>3. UnclosedIsRegistered'
    BY <1>6, <2>1 DEF Reset, NoLinks, Others
  <2>4. VisitedIsClosed'
    BY <1>6 DEF Reset, NoLinks, Others
  <2>5. DialsIntoNothing'
    BY <1>6, <2>1 DEF Reset, NoLinks, Others
  <2> QED
    BY <2>2, <2>3, <2>4, <2>5
<1>7. ASSUME NEW p \in Pods, ResetFails(p)
      PROVE  LinkInv'
  <2>1. \A l \in Links : from[l] = p => conn[l] = "closed"
    BY <1>7, AllTorn DEF ResetFails
  <2>2. TypeOK' /\ OffIsOff'
    BY <1>7 DEF ResetFails, NoLinks
  <2>3. UnclosedIsRegistered'
    BY <1>7, <2>1 DEF ResetFails, NoLinks
  <2>4. VisitedIsClosed'
    BY <1>7 DEF ResetFails, NoLinks
  <2>5. DialsIntoNothing'
    BY <1>7, <2>1 DEF ResetFails, NoLinks
  <2> QED
    BY <2>2, <2>3, <2>4, <2>5
<1>8. ASSUME NEW p \in Pods, Dial(p)
      PROVE  LinkInv'
  BY <1>8 DEF Dial
<1>9. ASSUME NEW p \in Pods, Connected(p)
      PROVE  LinkInv'
  BY <1>9 DEF Connected, Spare, Registered
<1>10. ASSUME NEW p \in Pods, DialFails(p)
      PROVE  LinkInv'
  BY <1>10 DEF DialFails
<1>11. ASSUME NEW p \in Pods, Dialled(p)
      PROVE  LinkInv'
  BY <1>11 DEF Dialled
<1>12. ASSUME NEW l \in Links, Break(l)
      PROVE  LinkInv'
  BY <1>12 DEF Break
<1>13. ASSUME NEW l \in Links, ReadFails(l)
      PROVE  LinkInv'
  BY <1>13 DEF ReadFails
<1>14. ASSUME NEW l \in Links, LockConn(l)
      PROVE  LinkInv'
  BY <1>14 DEF LockConn
<1>15. ASSUME NEW l \in Links, Disconnect(l)
      PROVE  LinkInv'
  <2>1. /\ CloseAndDelete(l)
        /\ connMu' = [connMu EXCEPT ![l] = Free]
        /\ reader' = [reader EXCEPT ![l] = "gone"]
        /\ UNCHANGED <<running, serverMu, keeper, ends, queue, writer, sender>>
    BY <1>15 DEF Disconnect
  <2>2. /\ conn' \in [Links -> {"open", "broken", "closed"}]
        /\ instances' \in [Pods -> [Pods -> Links \cup {NoLink}]]
        /\ \A k \in Links : conn'[k] = IF k = l THEN "closed" ELSE conn[k]
        /\ \A k \in Links : k # l /\ conn[k] # "closed" => instances'[from[k]][to[k]] = k
    BY <2>1, OwnEntryOnly
  <2>3. TypeOK' /\ OffIsOff'
    BY <2>1, <2>2
  <2>4. UnclosedIsRegistered'
    BY <2>1, <2>2
  <2>5. VisitedIsClosed'
    BY <2>1, <2>2
  <2>6. DialsIntoNothing'
    BY <2>1, <2>2
  <2> QED
    BY <2>3, <2>4, <2>5, <2>6
<1>16. ASSUME NEW l \in Links, TakeMessage(l)
      PROVE  LinkInv'
  BY <1>16 DEF TakeMessage
<1>17. ASSUME NEW l \in Links, Flush(l)
      PROVE  LinkInv'
  BY <1>17 DEF Flush
<1>18. ASSUME NEW l \in Links, PingFails(l)
      PROVE  LinkInv'
  BY <1>18 DEF PingFails
<1>19. ASSUME NEW p \in Pods, BeginSend(p)
      PROVE  LinkInv'
  BY <1>19 DEF BeginSend, Registered
<1>20. ASSUME NEW p \in Pods, Send(p)
      PROVE  LinkInv'
  <2>1. ASSUME NEW l \in Links, SendOn(p, l)
        PROVE  LinkInv'
    BY <2>1 DEF SendOn, HasRoom
  <2>2. CASE EndSend(p)
    BY <2>2 DEF EndSend
  <2> QED
    BY <1>20, <2>1, <2>2 DEF Send
<1>21. ASSUME NEW p \in Pods, Crash(p)
      PROVE  LinkInv'
  BY <1>21 DEF Crash, NoLinks
<1>22. CASE UNCHANGED vars
  BY <1>22 DEF vars
<1> QED
  BY <1>1, <1>2, <1>3, <1>4, <1>5, <1>6, <1>7, <1>8, <1>9, <1>10, <1>11, <1>12,
     <1>13, <1>14, <1>15, <1>16, <1>17, <1>18, <1>19, <1>20, <1>21, <1>22
     DEF Next, Keep, Read, Write

\* At most one link between two pods is not closed, and it is in the map.
THEOREM LinkInvariant == Spec => []LinkInv
BY InitLinkInv, NextLinkInv, PTL DEF Spec

-----------------------------------------------------------------------------
\* The types of the variables; a channel never exceeds its capacity.
THEOREM LinkTypeCorrect == Spec => []TypeOK
<1>1. LinkInv => TypeOK
  BY DEF LinkInv
<1> QED
  BY <1>1, LinkInvariant, PTL

\* An open link is the one its pod sends on (server.go:476-491): a late disconnect
\* of an old link to the same URL finds its connection closed and deletes nothing.
THEOREM OpenStaysRegistered == Spec => []OpenIsRegistered
<1>1. LinkInv => OpenIsRegistered
  BY DEF LinkInv, UnclosedIsRegistered, OpenIsRegistered
<1> QED
  BY <1>1, LinkInvariant, PTL
=============================================================================
