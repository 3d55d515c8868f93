--------------------------- MODULE MessagesProofs ---------------------------
(***************************************************************************)
(* Proofs about the queries and about linked messages.                     *)
(*                                                                         *)
(* Both have a loop that is a recursive function: the types of the classes *)
(* in a page of messages, and the removal of the receivers that were       *)
(* served.  What holds of them is shown with Throughout, which comes from  *)
(* the least number for which it would not hold, and that they are defined *)
(* with Iterated.                                                          *)
(*                                                                         *)
(* Queries: documents have ids of their own, pages are as long as they may *)
(* be, and others do not see an exclusive message, but for one case.  A    *)
(* walk misses and repeats no more than others changed meanwhile: a        *)
(* document has a rank among those that are wanted, a page takes those of  *)
(* some ranks, and a write changes the place of one document at most,      *)
(* before the present page or behind it.                                   *)
(*                                                                         *)
(* Linked messages: the removal keeps who was not served, the original is  *)
(* never kept without its copy, and updates of one document leave both     *)
(* readers with one status.                                                *)
(***************************************************************************)
EXTENDS Queries, LinkedMessages, SequenceTheorems, FiniteSetTheorems, WellFoundedInduction, TLAPS

-----------------------------------------------------------------------------
(* Recursive functions *)

\* The order of the natural numbers, as a relation.
LEMMA LessIsWellFounded ==
  \E R : IsWellFoundedOn(R, Nat) /\ \A x, y \in Nat : <<x, y>> \in R <=> x < y
<1>1. \A x, y \in Nat : <<x, y>> \in OpToRel(<, Nat) <=> x < y
  BY Zenon DEF OpToRel
<1>2. IsWellFoundedOn(OpToRel(<, Nat), Nat)
  BY NatLessThanWellFounded, Zenon
<1> QED
  BY <1>1, <1>2, Zenon

\* Some natural numbers have a least one.
LEMMA LeastOne ==
  ASSUME NEW T \in SUBSET Nat, T # {}
  PROVE  \E n \in T : \A m \in T : n <= m
<1>1. PICK R : IsWellFoundedOn(R, Nat) /\ \A x, y \in Nat : <<x, y>> \in R <=> x < y
  BY LessIsWellFounded
<1>2. T \subseteq Nat
  OBVIOUS
<1>3. IsWellFoundedOn(R, Nat)
  BY <1>1
<1>4. \E n \in T : \A m \in T : ~(<<m, n>> \in R)
  BY <1>2, <1>3, WFMin, Zenon
<1>5. PICK n \in T : \A m \in T : ~(<<m, n>> \in R)
  BY <1>4
<1>6. \A m \in T : ~(m < n)
  BY <1>1, <1>2, <1>5
<1> QED
  BY <1>2, <1>6

\* What holds at first and of the next one holds throughout.
LEMMA Throughout ==
  ASSUME NEW n \in Nat, NEW P, 0 \in P, \A i \in 1 .. n : i - 1 \in P => i \in P
  PROVE  0 .. n \subseteq P
<1> DEFINE T == {i \in 0 .. n : i \notin P}
<1>1. ASSUME T # {}
      PROVE  FALSE
  <2>1. PICK i \in T : \A k \in T : i <= k
    <3>1. T \in SUBSET Nat
      OBVIOUS
    <3> HIDE DEF T
    <3> QED
      BY <1>1, <3>1, LeastOne
  <2>2. i \in 1 .. n /\ i - 1 \in 0 .. n /\ ~(i <= i - 1)
    BY <2>1
  <2>3. i - 1 \in P
    BY <2>1, <2>2
  <2> QED
    BY <2>1, <2>2, <2>3
<1> QED
  BY <1>1

\* f starts with v and goes on with the functions in g.
Iterates(f, n, v, g) == f[0] = v /\ \A i \in 1 .. n : f[i] = g[i][f[i - 1]]

\* There is one, and it stays in T if they do.
LEMMA Iterated ==
  ASSUME NEW n \in Nat, NEW T, NEW v \in T, NEW g \in [1 .. n -> [T -> T]]
  PROVE  \E f \in [0 .. n -> T] : Iterates(f, n, v, g)
<1> DEFINE Is(f, k) == f[0] = v /\ \A i \in 1 .. k : f[i] = g[i][f[i - 1]]
           P == {k \in 0 .. n : \E f \in [0 .. k -> T] : Is(f, k)}
<1>1. 0 \in P
  <2> DEFINE h == [i \in 0 .. 0 |-> v]
  <2>1. h \in [0 .. 0 -> T] /\ h[0] = v /\ \A i \in 1 .. 0 : h[i] = g[i][h[i - 1]]
    OBVIOUS
  <2> HIDE DEF h
  <2>2. 0 \in 0 .. n
    OBVIOUS
  <2> QED
    BY <2>1, <2>2
<1>2. ASSUME NEW k \in 1 .. n, k - 1 \in P
      PROVE  k \in P
  <2>1. PICK f \in [0 .. k - 1 -> T] : Is(f, k - 1)
    BY <1>2
  <2> DEFINE h == [i \in 0 .. k |-> IF i = k THEN g[k][f[k - 1]] ELSE f[i]]
  <2>2. f[k - 1] \in T /\ g[k][f[k - 1]] \in T
    OBVIOUS
  <2>3. h \in [0 .. k -> T]
    <3>1. \A i \in 0 .. k : i # k => i \in 0 .. k - 1
      OBVIOUS
    <3> QED
      BY <2>2, <3>1
  <2>4. h[0] = v
    BY <2>1
  <2>5. ASSUME NEW i \in 1 .. k
        PROVE  h[i] = g[i][h[i - 1]]
    <3>1. h[i - 1] = f[i - 1]
      OBVIOUS
    <3>2. CASE i = k
      <4>1. h[k] = g[k][f[k - 1]]
        OBVIOUS
      <4> HIDE DEF h
      <4> QED
        BY <3>1, <3>2, <4>1
    <3>3. CASE i # k
      <4>1. i \in 1 .. k - 1 /\ h[i] = f[i]
        BY <3>3
      <4> QED
        BY <2>1, <3>1, <4>1
    <3> QED
      BY <3>2, <3>3
  <2> HIDE DEF h
  <2>6. k \in 0 .. n
    OBVIOUS
  <2> QED
    BY <2>3, <2>4, <2>5, <2>6
<1> HIDE DEF P
<1>3. 0 .. n \subseteq P
  BY <1>1, <1>2, Throughout
<1>4. n \in P
  BY <1>3
<1> QED
  BY <1>4 DEF P, Iterates

-----------------------------------------------------------------------------
(* Queries *)

\* Documents as they are given, with the ids and times that they get.
Docs == {Doc(i, t, d.class, d.sub, d.users) : i \in Nat, t \in Nat, d \in Given}

WalkOK ==
  walk \in [kind : DOMAIN Contents, asker : Askers, desc : BOOLEAN, byTotal : BOOLEAN,
            pc : {"ask", "count", "find", "classes", "reply", "done", "failed"},
            page : Nat \ {0}, total : Nat, seen : Seq(Nat),
            start : {Contents[kind] : kind \in DOMAIN Contents},
            shifts : Nat, repeats : Nat, tied : BOOLEAN]

\* Documents have ids of their own, and those that are inserted get new ones.
StoreOK ==
  /\ store \in SUBSET Docs /\ IsFiniteSet(store) /\ clock \in Nat
  /\ known \subseteq ClassIds /\ writes \in 0 .. MaxWrites
  /\ Cardinality(walk.start) \in Nat
  /\ \A d \in store : d.id <= Cardinality(walk.start) + writes
  /\ \A d, e \in store : d.id = e.id => d = e

\* A page has different documents, and what is shown of it is no more.
PageOK ==
  /\ found \in Seq(Docs) /\ Len(found) <= Limit
  /\ \A i, j \in DOMAIN found : found[i] = found[j] => i = j
  /\ shown \in Seq(Docs) /\ Len(shown) <= Len(found)

QueriesInv == WalkOK /\ StoreOK /\ PageOK /\ OthersDontSee

\* What classMap and the answer are made of.
Subclasses == {d.sub : d \in Given}
Siftings == [map : UNION {[D -> Subclasses] : D \in SUBSET Subclasses},
             out : Seq(Docs), lost : BOOLEAN]
NothingYet == [map |-> <<>>, out |-> <<>>, lost |-> FALSE]

Hides(m, i) ==
  m.sub \in Exclusive /\ walk.asker \notin m.users
    => m.class # m.sub /\ \E j \in 1 .. i - 1 : found[j].sub = m.class

\* What holds after the first n messages: classMap has their subclasses, and what
\* is shown is of them, with the exception that OthersDontSee names.
SiftedSoFar(r, n) ==
  /\ \A k \in DOMAIN r.map : r.map[k] = k /\ \E j \in 1 .. n : found[j].sub = k
  /\ Len(r.out) <= n
  /\ \A k \in DOMAIN r.out : \E i \in 1 .. n : r.out[k] = found[i] /\ Hides(found[i], i)

\* What a document is made of.
LEMMA DocFields ==
  ASSUME NEW d \in Docs
  PROVE  /\ d.id \in Nat /\ d.stamp \in Nat /\ d.sub \in Subclasses
         /\ \A i, t \in Nat : /\ [d EXCEPT !.id = i, !.stamp = t] \in Docs
                              /\ [d EXCEPT !.id = i, !.stamp = t].id = i
                              /\ [d EXCEPT !.stamp = t] \in Docs
                              /\ [d EXCEPT !.stamp = t].id = d.id
<1>1. PICK i0 \in Nat, t0 \in Nat, g \in Given : d = Doc(i0, t0, g.class, g.sub, g.users)
  BY DEF Docs
<1>2. d.id \in Nat /\ d.stamp \in Nat /\ d.sub \in Subclasses
  BY <1>1 DEF Doc, Subclasses
<1>3. ASSUME NEW i \in Nat, NEW t \in Nat
      PROVE  /\ [d EXCEPT !.id = i, !.stamp = t] = Doc(i, t, g.class, g.sub, g.users)
             /\ [d EXCEPT !.stamp = t] = Doc(i0, t, g.class, g.sub, g.users)
  <2>1. d = [id |-> i0, stamp |-> t0, class |-> g.class, sub |-> g.sub, users |-> g.users]
    BY <1>1 DEF Doc
  <2>2. [d EXCEPT !.stamp = t] = [id |-> i0, stamp |-> t, class |-> g.class, sub |-> g.sub,
                                  users |-> g.users]
    BY <2>1
  <2>3. [d EXCEPT !.id = i] = [id |-> i, stamp |-> t0, class |-> g.class, sub |-> g.sub,
                               users |-> g.users]
    BY <2>1
  <2> DEFINE e == [d EXCEPT !.id = i]
  <2>4. [d EXCEPT !.id = i, !.stamp = t] = [e EXCEPT !.stamp = t]
    OBVIOUS
  <2>5. e = [id |-> i, stamp |-> t0, class |-> g.class, sub |-> g.sub, users |-> g.users]
    BY <2>3
  <2> HIDE DEF e
  <2>6. [e EXCEPT !.stamp = t] = [id |-> i, stamp |-> t, class |-> g.class, sub |-> g.sub,
                                  users |-> g.users]
    BY <2>5
  <2> QED
    BY <2>2, <2>4, <2>6 DEF Doc
<1>4. \A i, t \in Nat : Doc(i, t, g.class, g.sub, g.users) \in Docs
  BY DEF Docs
<1>5. \A i, t : Doc(i, t, g.class, g.sub, g.users).id = i
  BY DEF Doc
<1>6. ASSUME NEW i \in Nat, NEW t \in Nat
      PROVE  /\ [d EXCEPT !.id = i, !.stamp = t] \in Docs
             /\ [d EXCEPT !.id = i, !.stamp = t].id = i
             /\ [d EXCEPT !.stamp = t] \in Docs
             /\ [d EXCEPT !.stamp = t].id = d.id
  <2>1. d.id = i0
    BY <1>1, <1>5
  <2> DEFINE e == [d EXCEPT !.id = i, !.stamp = t]
             h == [d EXCEPT !.stamp = t]
  <2>2. e = Doc(i, t, g.class, g.sub, g.users) /\ h = Doc(i0, t, g.class, g.sub, g.users)
    BY <1>3
  <2> HIDE DEF e, h
  <2>3. e \in Docs /\ e.id = i /\ h \in Docs /\ h.id = d.id
    BY <1>4, <1>5, <2>1, <2>2
  <2> QED
    BY <2>3 DEF e, h
<1> QED
  BY <1>2, <1>6

\* One more message, shown or not.
LEMMA OneSifted ==
  ASSUME NEW r \in Siftings, NEW m \in Docs
  PROVE  NextMessage(r, m) \in Siftings
<1>1. r = [map |-> r.map, out |-> r.out, lost |-> r.lost]
      /\ r.out \in Seq(Docs) /\ r.lost \in BOOLEAN
      /\ r.map \in UNION {[D -> Subclasses] : D \in SUBSET Subclasses}
  BY DEF Siftings
<1>2. m.sub \in Subclasses
  BY DocFields
<1> DEFINE more == [k \in DOMAIN r.map \cup {m.sub} |-> IF k = m.sub THEN m.sub ELSE r.map[k]]
           next == NextMessage(r, m)
<1>3. more \in UNION {[D -> Subclasses] : D \in SUBSET Subclasses}
  <2>1. PICK D \in SUBSET Subclasses : r.map \in [D -> Subclasses]
    BY <1>1
  <2>2. more \in [D \cup {m.sub} -> Subclasses]
    BY <1>2, <2>1
  <2>3. D \cup {m.sub} \in SUBSET Subclasses
    BY <1>2
  <2> HIDE DEF more
  <2> QED
    BY <2>2, <2>3
<1>4. /\ next = [map |-> next.map, out |-> next.out, lost |-> next.lost]
      /\ next.map \in {r.map, more}
      /\ next.out \in {r.out, Append(r.out, m)} /\ next.lost \in BOOLEAN
  BY <1>1 DEF NextMessage, MapKey
<1>5. Append(r.out, m) \in Seq(Docs)
  BY <1>1
<1> HIDE DEF more, next
<1>6. next.map \in UNION {[D -> Subclasses] : D \in SUBSET Subclasses} /\ next.out \in Seq(Docs)
  BY <1>1, <1>3, <1>4, <1>5
<1> QED
  BY <1>4, <1>6 DEF Siftings, next

\* Before the first message.
LEMMA NothingSifted == NothingYet \in Siftings
<1>1. <<>> \in [{} -> Subclasses] /\ {} \in SUBSET Subclasses
  OBVIOUS
<1>2. <<>> \in UNION {[D -> Subclasses] : D \in SUBSET Subclasses}
  BY <1>1
<1>3. <<>> \in Seq(Docs)
  BY EmptySeq
<1> DEFINE Maps == UNION {[D -> Subclasses] : D \in SUBSET Subclasses}
           none == <<>>
<1>4. none \in Maps
  BY <1>2
<1> HIDE DEF Maps, none
<1>5. [map |-> none, out |-> <<>>, lost |-> FALSE] \in [map : Maps, out : Seq(Docs), lost : BOOLEAN]
  BY <1>3, <1>4
<1> QED
  BY <1>5 DEF NothingYet, Siftings, Maps, none

\* The messages that were found are looked at one after the other (messages.go:1713).
LEMMA SiftedByOne ==
  ASSUME found \in Seq(Docs)
  PROVE  \E f : /\ Sifted = f[Len(found)] /\ f[0] = NothingYet
                /\ \A i \in 1 .. Len(found) : f[i] = NextMessage(f[i - 1], found[i])
<1> DEFINE n == Len(found)
           Body(f) == [i \in 0 .. n |-> IF i = 0 THEN NothingYet ELSE NextMessage(f[i - 1], found[i])]
           g == [i \in 1 .. n |-> [r \in Siftings |-> NextMessage(r, found[i])]]
           c == CHOOSE f : f = Body(f)
<1>1. n \in Nat /\ \A i \in 1 .. n : found[i] \in Docs
  BY LenProperties
<1>2. NothingYet \in Siftings
  BY NothingSifted
<1>3. g \in [1 .. n -> [Siftings -> Siftings]]
  <2>1. \A r \in Siftings, i \in 1 .. n : NextMessage(r, found[i]) \in Siftings
    BY <1>1, OneSifted
  <2> QED
    BY <2>1
<1>4. \A r \in Siftings, i \in 1 .. n : g[i][r] = NextMessage(r, found[i])
  OBVIOUS
<1> HIDE DEF n, g
<1>11. n \in Nat
  BY <1>1
<1>5. PICK f \in [0 .. n -> Siftings] : Iterates(f, n, NothingYet, g)
  BY <1>2, <1>3, <1>11, Iterated
<1>6. \A i \in 1 .. n : f[i] = NextMessage(f[i - 1], found[i])
  <2>1. \A i \in 1 .. n : f[i - 1] \in Siftings
    BY <1>1, <1>5
  <2> QED
    BY <1>4, <1>5, <2>1 DEF Iterates
<1>7. f = Body(f)
  <2>1. \A i \in 0 .. n : f[i] = IF i = 0 THEN NothingYet ELSE NextMessage(f[i - 1], found[i])
    BY <1>1, <1>5, <1>6 DEF Iterates
  <2> QED
    BY <1>5, <2>1
<1>8. Sifted = c[n]
  BY DEF Sifted, NothingYet, n
<1>9. c = Body(c)
  <2> HIDE DEF Body
  <2> QED
    BY <1>7
<1> HIDE DEF c
<1>10. c[0] = NothingYet /\ \A i \in 1 .. n : c[i] = NextMessage(c[i - 1], found[i])
  BY <1>1, <1>9
<1> QED
  BY <1>8, <1>10 DEF n

\* What holds of the messages so far holds with the next one.
LEMMA SiftedMore ==
  ASSUME found \in Seq(Docs), NEW n \in 1 .. Len(found), NEW r \in Siftings, SiftedSoFar(r, n - 1)
  PROVE  SiftedSoFar(NextMessage(r, found[n]), n)
<1> DEFINE m == found[n]
           next == NextMessage(r, m)
           class == ClassOf(r.map, m)
<1>1. n \in Nat /\ \A i \in 1 .. n - 1 : i \in 1 .. n
  OBVIOUS
<1>2. r.out \in Seq(Docs) /\ Len(r.out) <= n - 1 /\ DOMAIN r.out = 1 .. Len(r.out)
  BY DEF Siftings, SiftedSoFar
<1>3. \A k \in DOMAIN r.map : r.map[k] = k /\ \E j \in 1 .. n - 1 : found[j].sub = k
  BY DEF SiftedSoFar
<1>4. \A k \in DOMAIN next.map : next.map[k] = k /\ \E j \in 1 .. n : found[j].sub = k
  <2>1. CASE m.class \in DOMAIN r.map
    <3>1. next.map = r.map
      BY <2>1 DEF NextMessage
    <3> HIDE DEF next
    <3> QED
      BY <1>1, <1>3, <3>1
  <2>2. CASE m.class \notin DOMAIN r.map
    <3>1. next.map = [k \in DOMAIN r.map \cup {m.sub} |-> IF k = m.sub THEN m.sub ELSE r.map[k]]
      BY <2>2 DEF NextMessage, MapKey
    <3>2. n \in 1 .. n /\ found[n].sub = m.sub
      OBVIOUS
    <3> HIDE DEF next, m
    <3>3. DOMAIN next.map = DOMAIN r.map \cup {m.sub}
      BY <3>1
    <3>4. ASSUME NEW k \in DOMAIN next.map
          PROVE  next.map[k] = k /\ \E j \in 1 .. n : found[j].sub = k
      <4>1. CASE k = m.sub
        BY <3>1, <3>2, <4>1
      <4>2. CASE k # m.sub
        <5>1. k \in DOMAIN r.map /\ next.map[k] = r.map[k]
          BY <3>1, <3>3, <4>2
        <5> QED
          BY <1>1, <1>3, <5>1
      <4> QED
        BY <4>1, <4>2
    <3> QED
      BY <3>4
  <2> QED
    BY <2>1, <2>2
<1>5. Shows(m, class) => Hides(m, n)
  <2>1. SUFFICES ASSUME class \notin Exclusive, m.sub \in Exclusive
                 PROVE  m.class # m.sub /\ \E j \in 1 .. n - 1 : found[j].sub = m.class
    BY DEF Shows, Hides
  <2>2. class # m.sub
    BY <2>1
  <2>3. m.class \in DOMAIN r.map /\ class = r.map[m.class]
    BY <2>2 DEF ClassOf
  <2> HIDE DEF class, m
  <2>4. class = m.class /\ \E j \in 1 .. n - 1 : found[j].sub = m.class
    BY <1>3, <2>3
  <2> QED
    BY <2>2, <2>4
<1>6. next.out = IF Shows(m, class) THEN Append(r.out, m) ELSE r.out
  BY DEF NextMessage
<1>7. m = found[n] /\ m \in Docs
  OBVIOUS
<1> HIDE DEF next, m, class
<1>8. Len(next.out) <= n
  BY <1>1, <1>2, <1>6, <1>7
<1>9. ASSUME NEW k \in DOMAIN next.out
      PROVE  \E i \in 1 .. n : next.out[k] = found[i] /\ Hides(found[i], i)
  <2>1. CASE k \in DOMAIN r.out /\ next.out[k] = r.out[k]
    <3>1. PICK i \in 1 .. n - 1 : r.out[k] = found[i] /\ Hides(found[i], i)
      BY <2>1 DEF SiftedSoFar
    <3> QED
      BY <1>1, <2>1, <3>1
  <2>2. CASE Shows(m, class) /\ next.out[k] = m
    <3>1. Hides(found[n], n) /\ next.out[k] = found[n] /\ n \in 1 .. n
      BY <1>1, <1>5, <1>7, <2>2
    <3> QED
      BY <3>1
  <2>3. \/ k \in DOMAIN r.out /\ next.out[k] = r.out[k]
        \/ Shows(m, class) /\ next.out[k] = m
    BY <1>2, <1>6, <1>7
  <2> QED
    BY <2>1, <2>2, <2>3
<1> QED
  BY <1>4, <1>8, <1>9 DEF SiftedSoFar, next, m

\* It holds of what LookUpClasses answers with.
LEMMA SiftedWell ==
  ASSUME found \in Seq(Docs)
  PROVE  Sifted \in Siftings /\ SiftedSoFar(Sifted, Len(found))
<1>1. PICK f : /\ Sifted = f[Len(found)] /\ f[0] = NothingYet
               /\ \A i \in 1 .. Len(found) : f[i] = NextMessage(f[i - 1], found[i])
  BY SiftedByOne
<1> DEFINE n == Len(found)
           P == {i \in 0 .. n : f[i] \in Siftings /\ SiftedSoFar(f[i], i)}
<1>2. n \in Nat /\ \A i \in 1 .. n : found[i] \in Docs /\ i - 1 \in 0 .. n
  BY LenProperties
<1>3. 0 \in P
  <2>1. NothingYet \in Siftings
    BY NothingSifted
  <2>2. SiftedSoFar(NothingYet, 0)
    BY DEF SiftedSoFar, NothingYet
  <2> QED
    BY <1>1, <1>2, <2>1, <2>2
<1>4. ASSUME NEW i \in 1 .. n, i - 1 \in P
      PROVE  i \in P
  <2>1. f[i] = NextMessage(f[i - 1], found[i]) /\ f[i - 1] \in Siftings /\ SiftedSoFar(f[i - 1], i - 1)
    BY <1>1, <1>4
  <2>2. f[i] \in Siftings
    BY <1>2, <2>1, OneSifted
  <2>3. SiftedSoFar(f[i], i)
    BY <2>1, SiftedMore
  <2> QED
    BY <2>2, <2>3
<1> HIDE DEF P, n
<1>5. n \in P
  <2>1. 0 .. n \subseteq P
    BY <1>2, <1>3, <1>4, Throughout
  <2> QED
    BY <1>2, <2>1
<1> QED
  BY <1>1, <1>5 DEF P, n

\* One page of what the find gives: the documents in it are wanted, different, and
\* no more than Limit (configuration.go:1054, messages.go:1690).
LEMMA OnePage ==
  ASSUME NEW W, IsFiniteSet(W), NEW s \in Orders(W), walk.page \in Nat \ {0}
  PROVE  /\ PageOf(s) \in Seq(W) /\ Len(PageOf(s)) <= Limit
         /\ \A i, j \in DOMAIN PageOf(s) : PageOf(s)[i] = PageOf(s)[j] => i = j
<1> DEFINE c == Cardinality(W)
           k == Skip(walk.page)
           l == IF k + Limit < c THEN k + Limit ELSE c
<1>1. c \in Nat
  BY FS_CardinalityType
<1>2. s \in [1 .. c -> W] /\ \A i, j \in 1 .. c : s[i] = s[j] => i = j
  BY DEF Orders, IsInjective
<1>3. k \in Nat /\ Limit \in Nat
  <2>1. walk.page - 1 \in Nat /\ Limit \in Nat
    BY QueriesAssumption
  <2> QED
    BY <2>1 DEF Skip
<1>4. Len(s) = c
  BY <1>1, <1>2
<1> HIDE DEF c, k
<1>5. l \in Int /\ l <= c /\ l <= k + Limit
  BY <1>1, <1>3
<1>6. PageOf(s) = SubSeq(s, k + 1, l)
  BY <1>4 DEF PageOf, k
<1> HIDE DEF l
<1>7. \A i \in k + 1 .. l : s[i] \in W
  BY <1>1, <1>2, <1>3, <1>5
<1> DEFINE p == SubSeq(s, k + 1, l)
<1>8. /\ p \in Seq(W) /\ Len(p) = IF k + 1 <= l THEN l - (k + 1) + 1 ELSE 0
      /\ \A i \in 1 .. l - (k + 1) + 1 : p[i] = s[k + 1 + i - 1]
  <2>1. k + 1 \in Int /\ l \in Int
    BY <1>3, <1>5
  <2> QED
    BY <1>7, <2>1, SubSeqProperties
<1> HIDE DEF p
<1>9. Len(p) <= Limit
  BY <1>3, <1>5, <1>8
<1>10. DOMAIN p = 1 .. Len(p)
  BY <1>8
<1>11. \A i \in DOMAIN p : i \in 1 .. l - k /\ k + i \in 1 .. c /\ p[i] = s[k + i]
  BY <1>1, <1>3, <1>5, <1>8, <1>10
<1>12. \A i, j \in DOMAIN p : p[i] = p[j] => i = j
  <2> TAKE i, j \in DOMAIN p
  <2>1. i \in Int /\ j \in Int /\ k + i \in 1 .. c /\ k + j \in 1 .. c
    BY <1>11
  <2>2. p[i] = p[j] => k + i = k + j
    BY <1>2, <1>11, <2>1
  <2> QED
    BY <1>3, <2>1, <2>2
<1> QED
  BY <1>6, <1>8, <1>9, <1>12 DEF p

\* What may be wanted is of the documents, and they are finitely many.
LEMMA WantedFinite ==
  ASSUME StoreOK
  PROVE  IsFiniteSet(Wanted) /\ Wanted \subseteq Docs /\ Cardinality(Wanted) \in Nat
<1>1. Wanted \in SUBSET store /\ IsFiniteSet(store) /\ store \subseteq Docs
  BY DEF Wanted, StoreOK
<1>2. IsFiniteSet(Wanted)
  BY <1>1, FS_Subset
<1> QED
  BY <1>1, <1>2, FS_CardinalityType

\* A walk that has not begun keeps it ...
LEMMA QueriesInitInv == QueriesInit => QueriesInv
<1> SUFFICES ASSUME QueriesInit
             PROVE  QueriesInv
  OBVIOUS
<1>1. PICK kind \in DOMAIN Contents, asker \in Askers, desc \in BOOLEAN, byTotal \in BOOLEAN :
    /\ store = Contents[kind] /\ known = ClassIds
    /\ clock = Cardinality(store) /\ writes = 0
    /\ found = <<>> /\ shown = <<>>
    /\ walk = [kind |-> kind, asker |-> asker, desc |-> desc, byTotal |-> byTotal,
               pc |-> "ask", page |-> 1, total |-> 0, seen |-> <<>>, start |-> store,
               shifts |-> 0, repeats |-> 0, tied |-> FALSE]
  BY DEF QueriesInit
<1>2. <<>> \in Seq(Nat) /\ <<>> \in Seq(Docs) /\ Len(<<>>) = 0 /\ Limit \in Nat /\ MaxWrites \in Nat
  BY QueriesAssumption, EmptySeq
<1>3. WalkOK
  BY <1>1, <1>2 DEF WalkOK
<1>4. StoreOK
  <2>1. /\ IsFiniteSet(store)
        /\ \A d \in store : d.id \in 1 .. Cardinality(store) /\ d.stamp \in Nat
        /\ \A d, e \in store : d.id = e.id => d = e
    BY <1>1, QueriesAssumption
  <2>2. Cardinality(store) \in Nat
    BY <2>1, FS_CardinalityType
  <2>3. store \subseteq Docs
    <3>1. ASSUME NEW d \in store
          PROVE  d \in Docs
      <4>1. d \in Given
        BY <1>1 DEF Given
      <4>2. d = Doc(d.id, d.stamp, d.class, d.sub, d.users)
        BY <4>1, QueriesAssumption
      <4>3. d.id \in Nat /\ d.stamp \in Nat
        BY <2>1, <2>2
      <4> QED
        BY <4>1, <4>2, <4>3 DEF Docs
    <3> QED
      BY <3>1
  <2>4. walk.start = store
    BY <1>1
  <2>5. \A d \in store : d.id <= Cardinality(store) + writes
    BY <1>1, <2>1, <2>2
  <2> QED
    BY <1>1, <1>2, <2>1, <2>2, <2>3, <2>4, <2>5 DEF StoreOK
<1>5. PageOK
  BY <1>1, <1>2 DEF PageOK
<1>6. OthersDontSee
  BY <1>1 DEF OthersDontSee
<1> QED
  BY <1>3, <1>4, <1>5, <1>6 DEF QueriesInv

\* What does not change the page leaves it as it should be.
LEMMA SamePage ==
  ASSUME QueriesInv, UNCHANGED <<found, shown>>, walk'.kind = walk.kind, walk'.asker = walk.asker
  PROVE  PageOK' /\ OthersDontSee'
<1>1. PageOK'
  BY DEF QueriesInv, PageOK
<1>2. OthersDontSee'
  BY DEF QueriesInv, OthersDontSee
<1> QED
  BY <1>1, <1>2

\* What does not change the documents leaves them as they should be.
LEMMA SameStore ==
  ASSUME QueriesInv, UNCHANGED <<store, clock, writes, known>>, walk'.start = walk.start
  PROVE  StoreOK'
BY DEF QueriesInv, StoreOK

\* ... and so does every request for a page, ...
LEMMA AsksInv ==
  ASSUME QueriesInv, NEW kind, Asks(kind)
  PROVE  QueriesInv'
<1>1. WalkOK' /\ walk'.kind = walk.kind /\ walk'.asker = walk.asker /\ walk'.start = walk.start
  BY DEF QueriesInv, WalkOK, Asks
<1> QED
  BY <1>1, SamePage, SameStore DEF Asks, QueriesInv

\* ... the count, ...
LEMMA CountAllInv ==
  ASSUME QueriesInv, CountAll, UNCHANGED <<store, clock, writes, known>>
  PROVE  QueriesInv'
<1>1. Cardinality(Wanted) \in Nat
  BY WantedFinite DEF QueriesInv
<1>2. WalkOK' /\ walk'.kind = walk.kind /\ walk'.asker = walk.asker /\ walk'.start = walk.start
  BY <1>1 DEF QueriesInv, WalkOK, CountAll
<1> QED
  BY <1>2, SamePage, SameStore DEF CountAll, QueriesInv

\* ... the find, whose page is the messages of whatever order the database chose, ...
LEMMA FindPageInv ==
  ASSUME QueriesInv, NEW next \in {"reply", "classes"}, FindPage(next),
         next = "reply" => walk.kind # "message", UNCHANGED <<store, clock, writes, known>>
  PROVE  QueriesInv'
<1>1. WalkOK' /\ walk'.kind = walk.kind /\ walk'.asker = walk.asker /\ walk'.start = walk.start
  <2> DEFINE tied == walk.tied \/ \E d, e \in Wanted : d # e /\ ~Before(d, e) /\ ~Before(e, d)
  <2>1. walk' = [walk EXCEPT !.pc = next, !.tied = tied] /\ tied \in BOOLEAN
    BY DEF FindPage, QueriesInv, WalkOK
  <2> HIDE DEF tied
  <2> QED
    BY <2>1 DEF QueriesInv, WalkOK
<1>2. PICK s \in Orders(Wanted) : found' = PageOf(s)
  BY DEF FindPage
<1>3. IsFiniteSet(Wanted) /\ Wanted \subseteq Docs /\ walk.page \in Nat \ {0}
  BY WantedFinite DEF QueriesInv, WalkOK
<1>4. /\ found' \in Seq(Wanted) /\ Len(found') <= Limit
      /\ \A i, j \in DOMAIN found' : found'[i] = found'[j] => i = j
  BY <1>2, <1>3, OnePage
<1>5. found' \in Seq(Docs)
  BY <1>3, <1>4
<1>6. shown' = found' \/ (shown' = <<>> /\ next = "classes")
  BY DEF FindPage
<1>7. shown' = IF next = "reply" THEN found' ELSE <<>>
  BY DEF FindPage
<1>8. PageOK'
  BY <1>4, <1>5, <1>7 DEF PageOK
<1>9. OthersDontSee'
  <2>1. CASE next = "reply"
    BY <1>1, <2>1 DEF OthersDontSee
  <2>2. CASE next = "classes"
    <3>1. Range(shown') = {}
      BY <1>7, <2>2 DEF Range
    <3> QED
      BY <3>1 DEF OthersDontSee
  <2> QED
    BY <2>1, <2>2
<1> QED
  BY <1>1, <1>8, <1>9, SameStore DEF QueriesInv

\* ... the lookup of the classes, ...
LEMMA LookUpClassesInv ==
  ASSUME QueriesInv, LookUpClasses, UNCHANGED <<store, clock, writes, known>>
  PROVE  QueriesInv'
<1> DEFINE r == Sifted
           n == Len(found)
<1>1. r \in Siftings /\ SiftedSoFar(r, n)
  BY SiftedWell DEF QueriesInv, PageOK
<1>2. /\ shown' = IF r.lost THEN <<>> ELSE r.out
      /\ walk' = [walk EXCEPT !.pc = IF r.lost THEN "failed" ELSE "reply"]
      /\ found' = found
  BY DEF LookUpClasses
<1> HIDE DEF r, n
<1>3. WalkOK' /\ walk'.kind = walk.kind /\ walk'.asker = walk.asker /\ walk'.start = walk.start
  <2> DEFINE pc == IF r.lost THEN "failed" ELSE "reply"
  <2>1. pc \in {"failed", "reply"} /\ walk' = [walk EXCEPT !.pc = pc]
    BY <1>2
  <2> HIDE DEF pc
  <2> QED
    BY <2>1 DEF QueriesInv, WalkOK
<1>4. r.out \in Seq(Docs) /\ Len(r.out) <= n
  BY <1>1 DEF Siftings, SiftedSoFar
<1>5. found \in Seq(Docs) /\ n \in Nat /\ n = Len(found) /\ DOMAIN found = 1 .. n
  BY DEF QueriesInv, PageOK, n
<1>6. PageOK'
  <2>1. shown' \in Seq(Docs) /\ Len(shown') <= n
    BY <1>2, <1>4, <1>5
  <2> QED
    BY <1>2, <1>5, <2>1 DEF QueriesInv, PageOK
<1>7. ASSUME NEW i \in DOMAIN found, found[i] \in Range(shown')
      PROVE  Hides(found[i], i)
  <2>1. shown' = r.out
    BY <1>2, <1>7 DEF Range
  <2>2. PICK k \in DOMAIN r.out : r.out[k] = found[i]
    BY <1>7, <2>1 DEF Range
  <2>3. PICK j \in 1 .. n : r.out[k] = found[j] /\ Hides(found[j], j)
    BY <1>1 DEF SiftedSoFar
  <2>4. i = j
    BY <1>5, <2>2, <2>3 DEF QueriesInv, PageOK
  <2> QED
    BY <2>3, <2>4
<1>8. OthersDontSee'
  <2>1. ASSUME NEW i \in DOMAIN found, found[i] \in Range(shown'), found[i].sub \in Exclusive,
               walk.asker \notin found[i].users
        PROVE  found[i].class # found[i].sub /\ \E j \in 1 .. i - 1 : found[j].sub = found[i].class
    BY <1>7, <2>1 DEF Hides
  <2> QED
    BY <1>2, <1>3, <2>1 DEF OthersDontSee
<1> QED
  BY <1>3, <1>6, <1>8, SameStore DEF QueriesInv

\* ... every answer, ...
LEMMA RepliesInv ==
  ASSUME QueriesInv, NEW kind, NEW total, Replies(kind, total)
  PROVE  QueriesInv'
<1> DEFINE ids == [i \in DOMAIN shown |-> shown[i].id]
           end == IF walk.byTotal THEN walk.page * Limit >= total \/ found = <<>> ELSE Len(shown) < Limit
<1>1. ids \in Seq(Nat)
  <2>1. shown \in Seq(Docs) /\ DOMAIN shown = 1 .. Len(shown) /\ Len(shown) \in Nat
    BY DEF QueriesInv, PageOK
  <2>2. \A i \in DOMAIN shown : shown[i].id \in Nat
    <3>1. \A d \in Docs : d.id \in Nat
      BY DocFields
    <3> QED
      BY <2>1, <3>1
  <2> QED
    BY <2>1, <2>2
<1>2. walk' = [walk EXCEPT !.seen = walk.seen \o ids, !.pc = IF end THEN "done" ELSE "ask",
                           !.page = IF end THEN walk.page ELSE walk.page + 1]
  BY DEF Replies
<1> HIDE DEF ids, end
<1> DEFINE seen == walk.seen \o ids
           pc == IF end THEN "done" ELSE "ask"
           page == IF end THEN walk.page ELSE walk.page + 1
<1>3. seen \in Seq(Nat) /\ pc \in {"done", "ask"} /\ page \in Nat \ {0}
  BY <1>1, ConcatProperties DEF QueriesInv, WalkOK
<1>4. walk' = [walk EXCEPT !.seen = seen, !.pc = pc, !.page = page]
  BY <1>2
<1> HIDE DEF seen, pc, page
<1>5. WalkOK' /\ walk'.kind = walk.kind /\ walk'.asker = walk.asker /\ walk'.start = walk.start
  BY <1>3, <1>4 DEF QueriesInv, WalkOK
<1> QED
  BY <1>5, SamePage, SameStore DEF Replies, QueriesInv

\* ... and a query that fails.
LEMMA QueryFailsInv ==
  ASSUME QueriesInv, QueryFails
  PROVE  QueriesInv'
<1>1. WalkOK' /\ walk'.kind = walk.kind /\ walk'.asker = walk.asker /\ walk'.start = walk.start
  BY DEF QueriesInv, WalkOK, QueryFails
<1> QED
  BY <1>1, SamePage, SameStore DEF QueryFails, QueriesInv

\* What others write leaves the walk as it is but for what the counters say.
LEMMA WritesInv ==
  ASSUME QueriesInv, NEW shift \in BOOLEAN, NEW repeat \in BOOLEAN, NEW stamp \in Nat,
         Writes(shift, repeat, stamp),
         store' \subseteq Docs, IsFiniteSet(store'),
         \A d \in store' : d.id <= Cardinality(walk.start) + (writes + 1),
         \A d, e \in store' : d.id = e.id => d = e
  PROVE  QueriesInv'
<1> DEFINE shifts == IF shift THEN walk.shifts + 1 ELSE walk.shifts
           repeats == IF repeat THEN walk.repeats + 1 ELSE walk.repeats
<1>1. shifts \in Nat /\ repeats \in Nat
  BY DEF QueriesInv, WalkOK
<1>2. walk' = [walk EXCEPT !.shifts = shifts, !.repeats = repeats]
  BY DEF Writes
<1> HIDE DEF shifts, repeats
<1>3. WalkOK' /\ walk'.kind = walk.kind /\ walk'.asker = walk.asker /\ walk'.start = walk.start
  BY <1>1, <1>2 DEF QueriesInv, WalkOK
<1>4. writes' = writes + 1 /\ writes' \in 0 .. MaxWrites /\ clock' = stamp /\ known' = known
  BY QueriesAssumption DEF QueriesInv, StoreOK, Writes, Walking
<1>5. StoreOK'
  BY <1>3, <1>4 DEF QueriesInv, StoreOK
<1> QED
  BY <1>3, <1>5, SamePage DEF Writes, QueriesInv

\* The next updatedAt is a number, as the clock is.
LEMMA StampsNat ==
  ASSUME QueriesInv
  PROVE  Stamps \subseteq Nat
BY DEF QueriesInv, StoreOK, Stamps

\* What others insert is a document with a new id and the present time.
LEMMA Inserted ==
  ASSUME QueriesInv, InsertOther
  PROVE  \E t \in Stamps, new \in Docs :
           /\ new.id = Cardinality(walk.start) + writes + 1 /\ new.stamp = t
           /\ store' = store \cup {new}
           /\ Writes(walk.desc, walk.desc, t)
<1> DEFINE id == Cardinality(walk.start) + writes + 1
<1>1. PICK f \in Fillings[walk.kind], t \in Stamps :
        /\ store' = store \cup {[f EXCEPT !.id = id, !.stamp = t]}
        /\ Writes(walk.desc, walk.desc, t)
  BY DEF InsertOther
<1>2. id \in Nat /\ t \in Nat
  BY StampsNat DEF QueriesInv, StoreOK, WalkOK
<1> DEFINE new == [f EXCEPT !.id = id, !.stamp = t]
<1> HIDE DEF id
<1>3. new = Doc(id, t, f.class, f.sub, f.users) /\ f \in Given
  <2>1. f \in Given
    BY DEF Given, QueriesInv, WalkOK
  <2>2. f = [id |-> f.id, stamp |-> f.stamp, class |-> f.class, sub |-> f.sub, users |-> f.users]
    BY <2>1, QueriesAssumption DEF Doc
  <2>3. [f EXCEPT !.id = id] = [id |-> id, stamp |-> f.stamp, class |-> f.class, sub |-> f.sub,
                                users |-> f.users]
    BY <2>2
  <2> DEFINE e == [f EXCEPT !.id = id]
  <2>4. new = [e EXCEPT !.stamp = t]
    OBVIOUS
  <2>5. e = [id |-> id, stamp |-> f.stamp, class |-> f.class, sub |-> f.sub, users |-> f.users]
    BY <2>3
  <2> HIDE DEF e, new
  <2>6. [e EXCEPT !.stamp = t] = [id |-> id, stamp |-> t, class |-> f.class, sub |-> f.sub,
                                  users |-> f.users]
    BY <2>5
  <2> QED
    BY <2>1, <2>4, <2>6 DEF Doc
<1> HIDE DEF new
<1>4. new \in Docs /\ new.id = id /\ new.stamp = t
  <2>1. Doc(id, t, f.class, f.sub, f.users) \in Docs
    BY <1>2, <1>3 DEF Docs
  <2>2. Doc(id, t, f.class, f.sub, f.users).id = id /\ Doc(id, t, f.class, f.sub, f.users).stamp = t
    BY DEF Doc
  <2> QED
    BY <1>3, <2>1, <2>2
<1>5. store' = store \cup {new}
  BY <1>1 DEF new
<1> QED
  BY <1>1, <1>4, <1>5 DEF id

\* What others insert has an id of its own, ...
LEMMA InsertOtherInv ==
  ASSUME QueriesInv, InsertOther
  PROVE  QueriesInv'
<1>1. PICK t \in Stamps, new \in Docs :
        /\ new.id = Cardinality(walk.start) + writes + 1
        /\ store' = store \cup {new}
        /\ Writes(walk.desc, walk.desc, t)
  BY Inserted
<1>2. /\ t \in Nat /\ walk.desc \in BOOLEAN /\ writes \in Nat
      /\ Cardinality(walk.start) \in Nat
  BY StampsNat DEF QueriesInv, StoreOK, WalkOK
<1>3. store' \subseteq Docs /\ IsFiniteSet(store')
  BY <1>1, FS_AddElement DEF QueriesInv, StoreOK
<1>4. \A d \in store : d.id \in Nat /\ d.id <= Cardinality(walk.start) + writes
  <2>1. \A d \in Docs : d.id \in Nat
    BY DocFields
  <2> QED
    BY <2>1 DEF QueriesInv, StoreOK
<1>5. \A d \in store' : d.id <= Cardinality(walk.start) + (writes + 1)
  BY <1>1, <1>2, <1>4
<1>6. ASSUME NEW d \in store', NEW e \in store', d.id = e.id
      PROVE  d = e
  <2>1. \A c \in store : c.id # new.id
    BY <1>1, <1>2, <1>4
  <2> QED
    BY <1>1, <1>6, <2>1 DEF QueriesInv, StoreOK
<1> QED
  BY <1>1, <1>2, <1>3, <1>5, <1>6, WritesInv

\* ... what they change keeps its id, ...
LEMMA UpdateOtherInv ==
  ASSUME QueriesInv, UpdateOther
  PROVE  QueriesInv'
<1>1. PICK d \in store, t \in Stamps :
        /\ store' = (store \ {d}) \cup {[d EXCEPT !.stamp = t]}
        /\ Writes(Sorted, Sorted, t)
  BY DEF UpdateOther
<1>2. t \in Nat /\ Sorted \in BOOLEAN /\ writes \in Nat /\ Cardinality(walk.start) \in Nat
      /\ d \in Docs
  BY StampsNat DEF QueriesInv, StoreOK, Sorted
<1> DEFINE new == [d EXCEPT !.stamp = t]
<1>3. new \in Docs /\ new.id = d.id
  BY <1>2, DocFields
<1> HIDE DEF new
<1>4. store' = (store \ {d}) \cup {new}
  BY <1>1 DEF new
<1>5. IsFiniteSet(store \ {d})
  BY FS_RemoveElement DEF QueriesInv, StoreOK
<1>6. store' \subseteq Docs /\ IsFiniteSet(store')
  BY <1>3, <1>4, <1>5, FS_AddElement DEF QueriesInv, StoreOK
<1>7. \A e \in store : e.id \in Nat /\ e.id <= Cardinality(walk.start) + writes
  <2>1. \A e \in Docs : e.id \in Nat
    BY DocFields
  <2> QED
    BY <2>1 DEF QueriesInv, StoreOK
<1>8. \A e \in store' : e.id <= Cardinality(walk.start) + (writes + 1)
  BY <1>2, <1>3, <1>4, <1>7
<1>9. \A e, c \in store' : e.id = c.id => e = c
  BY <1>3, <1>4 DEF QueriesInv, StoreOK
<1> QED
  BY <1>1, <1>2, <1>6, <1>8, <1>9, WritesInv

\* ... and what they delete leaves nothing behind, ...
LEMMA DeleteOtherInv ==
  ASSUME QueriesInv, DeleteOther
  PROVE  QueriesInv'
<1>1. PICK d \in store : store' = store \ {d} /\ Writes(TRUE, FALSE, clock)
  BY DEF DeleteOther
<1>2. clock \in Nat /\ writes \in Nat /\ Cardinality(walk.start) \in Nat
  BY DEF QueriesInv, StoreOK
<1>3. store' \subseteq Docs /\ IsFiniteSet(store')
  BY <1>1, FS_RemoveElement DEF QueriesInv, StoreOK
<1>4. \A e \in store : e.id \in Nat /\ e.id <= Cardinality(walk.start) + writes
  <2>1. \A e \in Docs : e.id \in Nat
    BY DocFields
  <2> QED
    BY <2>1 DEF QueriesInv, StoreOK
<1>5. \A e \in store' : e.id <= Cardinality(walk.start) + (writes + 1)
  BY <1>1, <1>2, <1>4
<1>6. \A e, c \in store' : e.id = c.id => e = c
  BY <1>1 DEF QueriesInv, StoreOK
<1> QED
  BY <1>1, <1>2, <1>3, <1>5, <1>6, WritesInv

\* ... nor does a class.
LEMMA DeleteClassInv ==
  ASSUME QueriesInv, DeleteClass
  PROVE  QueriesInv'
<1>1. WalkOK'
  BY DEF QueriesInv, WalkOK, DeleteClass
<1>2. known' \subseteq ClassIds /\ writes' \in 0 .. MaxWrites /\ writes' = writes + 1
      /\ UNCHANGED <<store, clock, walk, found, shown>>
  BY QueriesAssumption DEF QueriesInv, StoreOK, DeleteClass, Walking
<1>3. \A e \in store : e.id \in Nat
  <2>1. \A e \in Docs : e.id \in Nat
    BY DocFields
  <2> QED
    BY <2>1 DEF QueriesInv, StoreOK
<1>4. \A e \in store : e.id <= Cardinality(walk.start) + writes'
  <2>1. \A e \in store : e.id <= Cardinality(walk.start) + writes
    BY DEF QueriesInv, StoreOK
  <2>2. Cardinality(walk.start) \in Nat /\ writes \in Nat
    BY DEF QueriesInv, StoreOK
  <2> QED
    BY <1>2, <1>3, <2>1, <2>2
<1>5. StoreOK'
  BY <1>2, <1>4 DEF QueriesInv, StoreOK
<1> QED
  BY <1>1, <1>2, <1>5, SamePage DEF QueriesInv

\* No step of a walk or of another request breaks the invariant.
LEMMA QueriesNextInv == QueriesInv /\ [QueriesNext]_queriesVars => QueriesInv'
<1> SUFFICES ASSUME QueriesInv, [QueriesNext]_queriesVars
             PROVE  QueriesInv'
  OBVIOUS
<1>1. CASE \/ QueryConfigurations \/ QueryTemplates \/ QueryScenes \/ QuerySceneRelations
           \/ QueryMessages
  BY <1>1, AsksInv DEF QueryConfigurations, QueryTemplates, QueryScenes, QuerySceneRelations,
                       QueryMessages
<1>2. CASE queryConfigurations \/ queryTemplates \/ queryScenePage \/ querySceneRelationPage
  <2>1. PICK kind \in {"class", "template", "scene", "relation"} : CountAndFind(kind)
    BY <1>2 DEF queryConfigurations, queryTemplates, queryScenePage, querySceneRelationPage
  <2> QED
    BY <2>1, CountAllInv, FindPageInv DEF CountAndFind
<1>3. CASE queryMessages
  BY <1>3, CountAllInv, FindPageInv, LookUpClassesInv DEF queryMessages
<1>4. CASE \/ ConfigurationsReply \/ TemplatesReply \/ ScenesReply \/ SceneRelationsReply
           \/ MessagesReply
  BY <1>4, RepliesInv DEF ConfigurationsReply, TemplatesReply, ScenesReply, SceneRelationsReply,
                          MessagesReply
<1>5. CASE QueryFails
  BY <1>5, QueryFailsInv
<1>6. CASE InsertOther \/ UpdateOther \/ DeleteOther \/ DeleteClass
  BY <1>6, InsertOtherInv, UpdateOtherInv, DeleteOtherInv, DeleteClassInv
<1>7. CASE UNCHANGED queriesVars
  <2>1. WalkOK'
    BY <1>7 DEF QueriesInv, WalkOK, queriesVars
  <2>2. PageOK' /\ OthersDontSee' /\ StoreOK'
    BY <1>7, SamePage, SameStore DEF queriesVars
  <2> QED
    BY <2>1, <2>2 DEF QueriesInv
<1> QED
  BY <1>1, <1>2, <1>3, <1>4, <1>5, <1>6, <1>7 DEF QueriesNext

\* What the invariant says beside OthersDontSee is the type of the state.
LEMMA QueriesInvTypes == QueriesInv => QueriesTypeOK
BY DEF QueriesInv, WalkOK, StoreOK, PageOK, QueriesTypeOK

\* It holds in every walk.
LEMMA QueriesInvAlways == QueriesSpec => []QueriesInv
<1> QED
  BY QueriesInitInv, QueriesNextInv, PTL DEF QueriesSpec

\* However the callers walk, whoever they ask for and whatever others write, the
\* queries keep their types: documents have ids of their own, and a page is never
\* longer than it may be, nor what is shown of it than the page.
THEOREM QueriesTypeCorrect == QueriesSpec => []QueriesTypeOK
<1> QED
  BY QueriesInvAlways, QueriesInvTypes, PTL

\* An exclusive message is shown to others only after one of the class that it has
\* as its ClassId, for pages of any length and any classes (messages.go:1748).
THEOREM OthersNeverSee == QueriesSpec => []OthersDontSee
<1>1. QueriesInv => OthersDontSee
  BY DEF QueriesInv
<1> QED
  BY <1>1, QueriesInvAlways, PTL

-----------------------------------------------------------------------------
(* The pages of a walk *)

\* In which order the pages come: as inserted, the first or the last change first.
Directions == {"inserted", "first", "last"}
Direction == IF ~Sorted THEN "inserted" ELSE IF walk.desc THEN "last" ELSE "first"

\* An order of all documents: those of one updatedAt are in that of their ids.
Precedes(m, d, e) ==
  \/ m = "inserted" /\ d.id < e.id
  \/ m = "first" /\ (d.stamp < e.stamp \/ (d.stamp = e.stamp /\ d.id < e.id))
  \/ m = "last" /\ (d.stamp > e.stamp \/ (d.stamp = e.stamp /\ d.id > e.id))

PrecedingIn(m, W, d) == {e \in W : Precedes(m, e, d)}
Rank(m, W, d) == Cardinality(PrecedingIn(m, W, d))

\* Documents with ids of their own.
WithIds(W) == W \in SUBSET Docs /\ IsFiniteSet(W) /\ \A d, e \in W : d.id = e.id => d = e

\* The ids in C of documents that n others are not ahead of, and of those that n are.
Early(m, W, C, n) == {i \in C : \E d \in W : d.id = i /\ Rank(m, W, d) < n}
Late(m, W, C, n) == {i \in C : \E d \in W : d.id = i /\ Rank(m, W, d) >= n}

\* Pairs of numbers are ordered by the first, then by the second.
LEMMA PairsOrdered ==
  ASSUME NEW a \in Nat, NEW b \in Nat, NEW c \in Nat, NEW i \in Nat, NEW j \in Nat, NEW k \in Nat
  PROVE  /\ ~(a < a \/ (a = a /\ i < i))
         /\ (a < b \/ (a = b /\ i < j)) /\ (b < c \/ (b = c /\ j < k)) => (a < c \/ (a = c /\ i < k))
         /\ (c < b \/ (c = b /\ k < j)) /\ (b < a \/ (b = a /\ j < i)) => (c < a \/ (c = a /\ k < i))
         /\ i # j => (a < b \/ (a = b /\ i < j)) \/ (b < a \/ (b = a /\ j < i))
OBVIOUS

\* Precedes is a strict order in which any two documents can be compared.
LEMMA PrecedesIsOrder ==
  ASSUME NEW m \in Directions, NEW x \in Docs, NEW y \in Docs, NEW z \in Docs
  PROVE  /\ ~Precedes(m, x, x)
         /\ Precedes(m, x, y) /\ Precedes(m, y, z) => Precedes(m, x, z)
         /\ x.id # y.id => Precedes(m, x, y) \/ Precedes(m, y, x)
<1>1. /\ x.id \in Nat /\ y.id \in Nat /\ z.id \in Nat
      /\ x.stamp \in Nat /\ y.stamp \in Nat /\ z.stamp \in Nat
  BY DocFields
<1>2. CASE m = "inserted"
  BY <1>1, <1>2 DEF Precedes
<1>3. CASE m = "first"
  <2>1. \A d, e : Precedes(m, d, e) <=> d.stamp < e.stamp \/ (d.stamp = e.stamp /\ d.id < e.id)
    BY <1>3 DEF Precedes
  <2> QED
    BY <1>1, <2>1, PairsOrdered
<1>4. CASE m = "last"
  <2>1. \A d \in Docs, e \in Docs :
          Precedes(m, d, e) <=> e.stamp < d.stamp \/ (e.stamp = d.stamp /\ e.id < d.id)
    <3> SUFFICES ASSUME NEW d \in Docs, NEW e \in Docs
                 PROVE  Precedes(m, d, e) <=> e.stamp < d.stamp \/ (e.stamp = d.stamp /\ e.id < d.id)
      OBVIOUS
    <3>1. d.id \in Nat /\ e.id \in Nat /\ d.stamp \in Nat /\ e.stamp \in Nat
      BY DocFields
    <3> QED
      BY <1>4, <3>1 DEF Precedes
  <2> QED
    BY <1>1, <2>1, PairsOrdered
<1> QED
  BY <1>2, <1>3, <1>4 DEF Directions

\* The rank of a document is a number below that of all documents.
LEMMA RankNat ==
  ASSUME NEW m \in Directions, NEW W, WithIds(W), NEW d \in W
  PROVE  /\ IsFiniteSet(PrecedingIn(m, W, d)) /\ Rank(m, W, d) \in Nat
         /\ Cardinality(W) \in Nat /\ Rank(m, W, d) < Cardinality(W)
<1>1. PrecedingIn(m, W, d) \in SUBSET W /\ d \in W \ PrecedingIn(m, W, d)
  BY PrecedesIsOrder DEF PrecedingIn, WithIds
<1>2. /\ IsFiniteSet(PrecedingIn(m, W, d))
      /\ Cardinality(PrecedingIn(m, W, d)) <= Cardinality(W)
      /\ Cardinality(PrecedingIn(m, W, d)) = Cardinality(W) => W = PrecedingIn(m, W, d)
  BY <1>1, FS_Subset DEF WithIds
<1>3. Cardinality(PrecedingIn(m, W, d)) \in Nat /\ Cardinality(W) \in Nat
  BY <1>2, FS_CardinalityType DEF WithIds
<1> QED
  BY <1>1, <1>2, <1>3 DEF Rank

\* Whoever is ahead has the lower rank ...
LEMMA RankGrows ==
  ASSUME NEW m \in Directions, NEW W, WithIds(W), NEW d \in W, NEW e \in W, Precedes(m, d, e)
  PROVE  Rank(m, W, d) < Rank(m, W, e)
<1>1. PrecedingIn(m, W, d) \in SUBSET PrecedingIn(m, W, e)
  BY PrecedesIsOrder DEF PrecedingIn, WithIds
<1>2. d \in PrecedingIn(m, W, e) /\ d \notin PrecedingIn(m, W, d)
  BY PrecedesIsOrder DEF PrecedingIn, WithIds
<1>3. IsFiniteSet(PrecedingIn(m, W, e)) /\ Rank(m, W, d) \in Nat /\ Rank(m, W, e) \in Nat
  BY RankNat
<1>4. /\ Cardinality(PrecedingIn(m, W, d)) <= Cardinality(PrecedingIn(m, W, e))
      /\ Cardinality(PrecedingIn(m, W, e)) = Cardinality(PrecedingIn(m, W, d))
           => PrecedingIn(m, W, e) = PrecedingIn(m, W, d)
  BY <1>1, <1>3, FS_Subset
<1> QED
  BY <1>2, <1>3, <1>4 DEF Rank

\* ... and no two documents have the same.
LEMMA RankDiffers ==
  ASSUME NEW m \in Directions, NEW W, WithIds(W), NEW d \in W, NEW e \in W,
         Rank(m, W, d) = Rank(m, W, e)
  PROVE  d = e
<1>1. Rank(m, W, d) \in Nat
  BY RankNat
<1>2. ~Precedes(m, d, e) /\ ~Precedes(m, e, d)
  BY <1>1, RankGrows
<1>3. d \in Docs /\ e \in Docs
  BY DEF WithIds
<1>4. d.id = e.id
  BY <1>2, <1>3, PrecedesIsOrder
<1> QED
  BY <1>4 DEF WithIds

\* Fewer documents have fewer ahead, by one at most.
LEMMA RankWithout ==
  ASSUME NEW m \in Directions, NEW W, WithIds(W), NEW d \in W, NEW x \in W \ {d}
  PROVE  /\ WithIds(W \ {d})
         /\ Rank(m, W, x) = Rank(m, W \ {d}, x) + (IF Precedes(m, d, x) THEN 1 ELSE 0)
<1>1. WithIds(W \ {d})
  BY FS_RemoveElement DEF WithIds
<1>2. PrecedingIn(m, W \ {d}, x) = PrecedingIn(m, W, x) \ {d}
  BY DEF PrecedingIn
<1>3. d \in PrecedingIn(m, W, x) <=> Precedes(m, d, x)
  BY DEF PrecedingIn
<1>4. IsFiniteSet(PrecedingIn(m, W, x)) /\ Rank(m, W, x) \in Nat /\ Rank(m, W \ {d}, x) \in Nat
  BY <1>1, RankNat
<1>5. Cardinality(PrecedingIn(m, W, x) \ {d}) =
        IF d \in PrecedingIn(m, W, x) THEN Cardinality(PrecedingIn(m, W, x)) - 1
                                  ELSE Cardinality(PrecedingIn(m, W, x))
  BY <1>4, FS_RemoveElement
<1>6. Rank(m, W \ {d}, x) = IF Precedes(m, d, x) THEN Rank(m, W, x) - 1 ELSE Rank(m, W, x)
  BY <1>2, <1>3, <1>5 DEF Rank
<1> QED
  BY <1>1, <1>4, <1>6

\* A document that moves back lets others move up, by one at most, if they were
\* behind it and are not any more.
LEMMA RankMoved ==
  ASSUME NEW m \in Directions, NEW W, WithIds(W), NEW d \in W, NEW e \in Docs, e.id = d.id,
         e = d \/ Precedes(m, d, e)
  PROVE  /\ WithIds((W \ {d}) \cup {e})
         /\ Rank(m, W, d) <= Rank(m, (W \ {d}) \cup {e}, e)
         /\ \A x \in W \ {d} :
              Rank(m, W, x) = Rank(m, (W \ {d}) \cup {e}, x)
                                + (IF Precedes(m, d, x) /\ ~Precedes(m, e, x) THEN 1 ELSE 0)
<1> DEFINE U == W \ {d}
           V == U \cup {e}
<1>1. e \notin U /\ d \notin U /\ V \ {e} = U
  BY DEF WithIds
<1>2. WithIds(U) /\ WithIds(V)
  <2>1. IsFiniteSet(U) /\ IsFiniteSet(U \cup {e})
    BY FS_RemoveElement, FS_AddElement DEF WithIds
  <2> QED
    BY <2>1 DEF WithIds
<1>3. ASSUME NEW x \in U
      PROVE  Rank(m, W, x) = Rank(m, V, x) + (IF Precedes(m, d, x) /\ ~Precedes(m, e, x) THEN 1 ELSE 0)
  <2>1. Rank(m, W, x) = Rank(m, U, x) + (IF Precedes(m, d, x) THEN 1 ELSE 0)
    BY RankWithout
  <2>2. Rank(m, V, x) = Rank(m, U, x) + (IF Precedes(m, e, x) THEN 1 ELSE 0)
    <3>1. e \in V /\ x \in V \ {e}
      BY <1>1
    <3> HIDE DEF V
    <3> QED
      BY <1>1, <1>2, <3>1, RankWithout
  <2>3. Precedes(m, e, x) => Precedes(m, d, x)
    BY PrecedesIsOrder DEF WithIds
  <2>4. Rank(m, U, x) \in Nat
    BY <1>2, RankNat
  <2> HIDE DEF U, V
  <2> QED
    BY <2>1, <2>2, <2>3, <2>4
<1>4. Rank(m, W, d) <= Rank(m, V, e)
  <2>1. PrecedingIn(m, W, d) \in SUBSET PrecedingIn(m, V, e)
    BY PrecedesIsOrder DEF PrecedingIn, WithIds
  <2>2. IsFiniteSet(PrecedingIn(m, V, e))
    <3>1. e \in V
      OBVIOUS
    <3> HIDE DEF V
    <3> QED
      BY <1>2, <3>1, RankNat
  <2> QED
    BY <2>1, <2>2, FS_Subset DEF Rank
<1> QED
  BY <1>2, <1>3, <1>4

\* There is one document of a rank.
IsOfRank(m, W, k, a) == \A x \in W : Rank(m, W, x) = k => x.id = a

LEMMA OneOfRank ==
  ASSUME NEW m \in Directions, NEW W, WithIds(W), NEW k
  PROVE  \E a : IsOfRank(m, W, k, a)
<1>1. CASE \E x \in W : Rank(m, W, x) = k
  <2>1. PICK y \in W : Rank(m, W, y) = k
    BY <1>1
  <2>2. \A x \in W : Rank(m, W, x) = k => x.id = y.id
    BY <2>1, RankDiffers
  <2> QED
    BY <2>2 DEF IsOfRank
<1>2. CASE ~\E x \in W : Rank(m, W, x) = k
  BY <1>2 DEF IsOfRank
<1> QED
  BY <1>1, <1>2

\* What a deletion changes: one document more may be early.
LEMMA AfterDelete ==
  ASSUME NEW m \in Directions, NEW W, WithIds(W), NEW d \in W, NEW C, NEW n \in Nat
  PROVE  /\ \E a : Early(m, W \ {d}, C, n) \subseteq Early(m, W, C, n) \cup {a}
         /\ \A t \in Nat : Late(m, W \ {d}, C, t) \subseteq Late(m, W, C, t)
<1> DEFINE U == W \ {d}
<1>1. \A x \in U : /\ Rank(m, W, x) \in Nat /\ Rank(m, U, x) \in Nat
                   /\ Rank(m, U, x) <= Rank(m, W, x) /\ Rank(m, W, x) <= Rank(m, U, x) + 1
  <2> SUFFICES ASSUME NEW x \in U
               PROVE  /\ Rank(m, W, x) \in Nat /\ Rank(m, U, x) \in Nat
                      /\ Rank(m, U, x) <= Rank(m, W, x) /\ Rank(m, W, x) <= Rank(m, U, x) + 1
    OBVIOUS
  <2>1. WithIds(U) /\ Rank(m, W, x) = Rank(m, U, x) + (IF Precedes(m, d, x) THEN 1 ELSE 0)
    BY RankWithout
  <2>2. Rank(m, W, x) \in Nat /\ Rank(m, U, x) \in Nat
    BY <2>1, RankNat
  <2> HIDE DEF U
  <2> QED
    BY <2>1, <2>2
<1>2. U \subseteq W
  OBVIOUS
<1> HIDE DEF U
<1>3. PICK a : IsOfRank(m, W, n, a)
  BY OneOfRank
<1>4. Early(m, U, C, n) \subseteq Early(m, W, C, n) \cup {a}
  BY <1>1, <1>2, <1>3 DEF Early, IsOfRank
<1>5. \A t \in Nat : Late(m, U, C, t) \subseteq Late(m, W, C, t)
  BY <1>1, <1>2 DEF Late
<1> QED
  BY <1>4, <1>5 DEF U

\* What an insert changes, if its id does not count: nothing if it is the last,
\* otherwise one document more may be late.
LEMMA AfterInsertion ==
  ASSUME NEW m \in Directions, NEW W, WithIds(W), NEW f \in Docs, NEW C,
         f.id \notin C, \A x \in W : x.id # f.id, NEW t \in Nat
  PROVE  /\ WithIds(W \cup {f})
         /\ \A n \in Nat : Early(m, W \cup {f}, C, n) \subseteq Early(m, W, C, n)
         /\ \E a : Late(m, W \cup {f}, C, t) \subseteq Late(m, W, C, t) \cup {a}
         /\ (\A x \in W : ~Precedes(m, f, x)) => Late(m, W \cup {f}, C, t) \subseteq Late(m, W, C, t)
<1> DEFINE V == W \cup {f}
<1>1. WithIds(V) /\ f \in V /\ V \ {f} = W /\ W \subseteq V
  BY FS_AddElement DEF WithIds
<1>2. \A x \in V : x.id \in C => x \in W
  OBVIOUS
<1> HIDE DEF V
<1>3. \A x \in W : /\ Rank(m, W, x) \in Nat /\ Rank(m, V, x) \in Nat
                   /\ Rank(m, V, x) = Rank(m, W, x) + (IF Precedes(m, f, x) THEN 1 ELSE 0)
  <2> SUFFICES ASSUME NEW x \in W
               PROVE  /\ Rank(m, W, x) \in Nat /\ Rank(m, V, x) \in Nat
                      /\ Rank(m, V, x) = Rank(m, W, x) + (IF Precedes(m, f, x) THEN 1 ELSE 0)
    OBVIOUS
  <2>1. x \in V \ {f} /\ x \in V
    BY <1>1
  <2> QED
    BY <1>1, <2>1, RankWithout, RankNat
<1>4. PICK a : IsOfRank(m, W, t - 1, a)
  BY OneOfRank
<1>5. \A n \in Nat : Early(m, V, C, n) \subseteq Early(m, W, C, n)
  BY <1>2, <1>3 DEF Early
<1>6. Late(m, V, C, t) \subseteq Late(m, W, C, t) \cup {a}
  BY <1>2, <1>3, <1>4 DEF Late, IsOfRank
<1>7. (\A x \in W : ~Precedes(m, f, x)) => Late(m, V, C, t) \subseteq Late(m, W, C, t)
  BY <1>2, <1>3 DEF Late
<1> QED
  BY <1>1, <1>5, <1>6, <1>7 DEF V

\* What a change in the order of inserts changes: nothing.
LEMMA AfterSame ==
  ASSUME NEW W, WithIds(W), NEW d \in W, NEW e \in Docs, e.id = d.id, NEW C, NEW n \in Nat
  PROVE  LET V == (W \ {d}) \cup {e}
         IN  /\ WithIds(V)
             /\ Early("inserted", V, C, n) \subseteq Early("inserted", W, C, n)
             /\ Late("inserted", V, C, n) \subseteq Late("inserted", W, C, n)
<1> DEFINE m == "inserted"
           U == W \ {d}
           V == U \cup {e}
<1>1. m \in Directions
  BY DEF Directions
<1>2. e \notin U /\ V \ {e} = U /\ e \in V
  BY DEF WithIds
<1>3. WithIds(V)
  <2>1. IsFiniteSet(U) /\ IsFiniteSet(U \cup {e})
    BY FS_RemoveElement, FS_AddElement DEF WithIds
  <2> QED
    BY <2>1 DEF WithIds
<1>4. \A x, y : Precedes(m, x, y) <=> x.id < y.id
  BY DEF Precedes
<1>5. PrecedingIn(m, V, e) = PrecedingIn(m, W, d)
  <2>1. d \in Docs
    BY DEF WithIds
  <2>2. d.id \in Nat
    BY <2>1, DocFields
  <2>3. ~(d.id < d.id)
    BY <2>2
  <2> QED
    BY <1>4, <2>3 DEF PrecedingIn
<1> HIDE DEF m
<1>6. \A x \in U : Rank(m, V, x) = Rank(m, W, x)
  <2> SUFFICES ASSUME NEW x \in U
               PROVE  Rank(m, V, x) = Rank(m, W, x)
    OBVIOUS
  <2>1. Rank(m, W, x) = Rank(m, U, x) + (IF Precedes(m, d, x) THEN 1 ELSE 0)
    BY <1>1, RankWithout
  <2>2. x \in V \ {e}
    BY <1>2
  <2> HIDE DEF V
  <2>3. Rank(m, V, x) = Rank(m, U, x) + (IF Precedes(m, e, x) THEN 1 ELSE 0)
    BY <1>1, <1>2, <1>3, <2>2, RankWithout
  <2>4. Precedes(m, d, x) <=> Precedes(m, e, x)
    BY <1>4
  <2> HIDE DEF U
  <2> QED
    BY <2>1, <2>3, <2>4
<1>7. Rank(m, V, e) = Rank(m, W, d)
  BY <1>5 DEF Rank
<1>8. \A x \in V : \E y \in W : y.id = x.id /\ Rank(m, W, y) = Rank(m, V, x)
  BY <1>6, <1>7
<1> HIDE DEF V, U
<1>9. /\ Early(m, V, C, n) \subseteq Early(m, W, C, n)
      /\ Late(m, V, C, n) \subseteq Late(m, W, C, n)
  BY <1>8 DEF Early, Late
<1> QED
  BY <1>3, <1>9 DEF V, U, m

\* Of the early, the early or late, and the late ones there is one more at most.
Shifts(m, W, V, C, H, n, t) ==
  /\ \E a : Early(m, V, C, n) \subseteq Early(m, W, C, n) \cup {a}
  /\ \E a : Early(m, V, C, n) \cup Late(m, V, C, t)
              \subseteq (Early(m, W, C, n) \cup Late(m, W, C, t)) \cup {a}
  /\ \E a : Late(m, V, H, n) \subseteq Late(m, W, H, n) \cup {a}

\* What a change changes that moves a document back: one more may be early or
\* late, and only the document itself may be late of those that were not.
LEMMA AfterMove ==
  ASSUME NEW m \in Directions, NEW W, WithIds(W), NEW d \in W, NEW e \in Docs, e.id = d.id,
         e = d \/ Precedes(m, d, e), NEW C, NEW H,
         NEW n \in Nat, NEW t \in Nat
  PROVE  Shifts(m, W, (W \ {d}) \cup {e}, C, H, n, t)
<1> DEFINE V == (W \ {d}) \cup {e}
<1>1. /\ WithIds(V) /\ Rank(m, W, d) <= Rank(m, V, e)
      /\ \A x \in W \ {d} :
           Rank(m, W, x) = Rank(m, V, x) + (IF Precedes(m, d, x) /\ ~Precedes(m, e, x) THEN 1 ELSE 0)
  BY RankMoved
<1>2. e \in V /\ \A x \in V : x # e => x \in W \ {d}
  OBVIOUS
<1>3. \A x \in V : Rank(m, V, x) \in Nat
  BY <1>1, RankNat
<1>4. \A x \in W : Rank(m, W, x) \in Nat
  BY RankNat
<1>5. \A x \in W \ {d} : Precedes(m, d, x) => Rank(m, W, d) < Rank(m, W, x)
  BY RankGrows
<1>6. W \ {d} \subseteq V
  OBVIOUS
<1> HIDE DEF V
<1>7. PICK b : IsOfRank(m, W, n, b)
  BY OneOfRank
<1> DEFINE a == IF n <= Rank(m, W, d) THEN d.id ELSE b
<1>8. \A x \in W \ {d} : /\ Rank(m, V, x) <= Rank(m, W, x)
                         /\ Rank(m, V, x) < n => Rank(m, W, x) < n \/ x.id = a
  <2> SUFFICES ASSUME NEW x \in W \ {d}
               PROVE  /\ Rank(m, V, x) <= Rank(m, W, x)
                      /\ Rank(m, V, x) < n => Rank(m, W, x) < n \/ x.id = a
    OBVIOUS
  <2>1. x \in V /\ x \in W
    BY <1>6
  <2>2. Rank(m, V, x) \in Nat /\ Rank(m, W, x) \in Nat /\ Rank(m, W, d) \in Nat
    BY <1>3, <1>4, <2>1
  <2>3. Rank(m, W, x) = Rank(m, V, x) \/ (Rank(m, W, x) = Rank(m, V, x) + 1 /\ Precedes(m, d, x))
    BY <1>1, <2>2
  <2>4. Rank(m, W, x) = n /\ Precedes(m, d, x) => x.id = a
    BY <1>5, <1>7, <2>1, <2>2 DEF IsOfRank
  <2> HIDE DEF a
  <2> QED
    BY <2>2, <2>3, <2>4
<1>9. \A i \in C : \A x \in V : x.id = i /\ Rank(m, V, x) < n => i \in Early(m, W, C, n) \cup {a}
  <2> SUFFICES ASSUME NEW i \in C, NEW x \in V, x.id = i, Rank(m, V, x) < n
               PROVE  i \in Early(m, W, C, n) \cup {a}
    OBVIOUS
  <2>1. CASE x = e
    <3>1. Rank(m, W, d) < n
      BY <1>1, <1>2, <1>3, <1>4, <2>1
    <3> QED
      BY <2>1, <3>1 DEF Early
  <2>2. CASE x # e
    BY <1>2, <1>8, <2>2 DEF Early
  <2> QED
    BY <2>1, <2>2
<1>10. Early(m, V, C, n) \subseteq Early(m, W, C, n) \cup {a}
  BY <1>9 DEF Early
<1>11. ASSUME NEW i \in Late(m, V, C, t)
       PROVE  i \in Early(m, W, C, n) \cup Late(m, W, C, t) \cup {a}
  <2>1. PICK x \in V : i \in C /\ x.id = i /\ Rank(m, V, x) >= t
    BY <1>11 DEF Late
  <2>2. CASE x = e
    <3>1. CASE n <= Rank(m, W, d)
      BY <2>1, <2>2, <3>1
    <3>2. CASE ~(n <= Rank(m, W, d))
      <4>1. Rank(m, W, d) < n
        BY <1>4, <3>2
      <4> QED
        BY <2>1, <2>2, <4>1 DEF Early
    <3> QED
      BY <3>1, <3>2
  <2>3. CASE x # e
    <3>1. x \in W \ {d} /\ Rank(m, W, x) >= Rank(m, V, x) /\ Rank(m, W, x) \in Nat /\ Rank(m, V, x) \in Nat
      BY <1>2, <1>3, <1>4, <1>8, <2>3
    <3>2. Rank(m, W, x) >= t
      BY <2>1, <3>1
    <3> QED
      BY <2>1, <3>1, <3>2 DEF Late
  <2> QED
    BY <2>2, <2>3
<1>12. Early(m, V, C, n) \cup Late(m, V, C, t)
         \subseteq (Early(m, W, C, n) \cup Late(m, W, C, t)) \cup {a}
  BY <1>10, <1>11
<1>13. Late(m, V, H, n) \subseteq Late(m, W, H, n) \cup {d.id}
  <2> SUFFICES ASSUME NEW i \in H, NEW x \in V, x.id = i, Rank(m, V, x) >= n, x # e
               PROVE  i \in Late(m, W, H, n)
    BY DEF Late
  <2>1. x \in W \ {d} /\ Rank(m, W, x) >= Rank(m, V, x) /\ Rank(m, W, x) \in Nat /\ Rank(m, V, x) \in Nat
    BY <1>2, <1>3, <1>4, <1>8
  <2> QED
    BY <2>1 DEF Late
<1> QED
  BY <1>10, <1>12, <1>13 DEF Shifts, V

\* The same, if it moves the document ahead.
LEMMA AfterLift ==
  ASSUME NEW m \in Directions, NEW W, WithIds(W), NEW d \in W, NEW e \in Docs, e.id = d.id,
         e = d \/ Precedes(m, e, d), NEW C, NEW H,
         NEW n \in Nat, NEW t \in Nat
  PROVE  Shifts(m, W, (W \ {d}) \cup {e}, C, H, n, t)
<1> DEFINE V == (W \ {d}) \cup {e}
<1>1. WithIds(V) /\ e \in V /\ (V \ {e}) \cup {d} = W /\ V \ {e} = W \ {d}
  <2>1. IsFiniteSet(W \ {d}) /\ IsFiniteSet((W \ {d}) \cup {e})
    BY FS_RemoveElement, FS_AddElement DEF WithIds
  <2> QED
    BY <2>1 DEF WithIds
<1>2. \A x \in V : x # e => x \in W \ {d}
  OBVIOUS
<1>3. W \ {d} \subseteq V
  OBVIOUS
<1>4. d \in Docs
  BY DEF WithIds
<1> HIDE DEF V
<1>5. /\ Rank(m, V, e) <= Rank(m, W, d)
      /\ \A x \in W \ {d} :
           Rank(m, V, x) = Rank(m, W, x) + (IF Precedes(m, e, x) /\ ~Precedes(m, d, x) THEN 1 ELSE 0)
  <2>1. d = e \/ Precedes(m, e, d)
    OBVIOUS
  <2> QED
    BY <1>1, <1>4, <2>1, RankMoved
<1>6. \A x \in V : Rank(m, V, x) \in Nat
  BY <1>1, RankNat
<1>7. \A x \in W : Rank(m, W, x) \in Nat
  BY RankNat
<1>8. \A x \in W \ {d} : ~Precedes(m, d, x) => Rank(m, W, x) < Rank(m, W, d)
  <2> SUFFICES ASSUME NEW x \in W \ {d}, ~Precedes(m, d, x)
               PROVE  Rank(m, W, x) < Rank(m, W, d)
    OBVIOUS
  <2>1. x.id # d.id /\ x \in Docs
    BY DEF WithIds
  <2> QED
    BY <1>4, <2>1, PrecedesIsOrder, RankGrows
<1>9. ASSUME NEW k \in Nat
      PROVE  \E b : \A x \in W \ {d} : Rank(m, V, x) >= k
               => Rank(m, W, x) >= k \/ (x.id = b /\ Rank(m, W, d) >= k)
  <2>1. PICK b : IsOfRank(m, W, k - 1, b)
    BY OneOfRank
  <2>2. ASSUME NEW x \in W \ {d}, Rank(m, V, x) >= k, ~(Rank(m, W, x) >= k)
        PROVE  x.id = b /\ Rank(m, W, d) >= k
    <3>1. x \in V /\ x \in W
      BY <1>3
    <3>2. Rank(m, V, x) \in Nat /\ Rank(m, W, x) \in Nat /\ Rank(m, W, d) \in Nat
      BY <1>6, <1>7, <3>1
    <3>3. Rank(m, V, x) = Rank(m, W, x) + 1 /\ ~Precedes(m, d, x)
      BY <1>5, <2>2, <3>2
    <3>4. Rank(m, W, x) = k - 1
      BY <2>2, <3>2, <3>3
    <3> QED
      BY <1>8, <2>1, <3>1, <3>2, <3>3, <3>4 DEF IsOfRank
  <2> QED
    BY <2>2
<1>10. \A x \in W \ {d} : Rank(m, W, x) <= Rank(m, V, x)
  <2> SUFFICES ASSUME NEW x \in W \ {d}
               PROVE  Rank(m, W, x) <= Rank(m, V, x)
    OBVIOUS
  <2>1. Rank(m, V, x) \in Nat /\ Rank(m, W, x) \in Nat
    BY <1>3, <1>6, <1>7
  <2> QED
    BY <1>5, <2>1
<1>11. Early(m, V, C, n) \subseteq Early(m, W, C, n) \cup {d.id}
  <2> SUFFICES ASSUME NEW i \in C, NEW x \in V, x.id = i, Rank(m, V, x) < n, x # e
               PROVE  i \in Early(m, W, C, n)
    BY DEF Early
  <2>1. x \in W \ {d} /\ Rank(m, W, x) <= Rank(m, V, x) /\ Rank(m, W, x) \in Nat /\ Rank(m, V, x) \in Nat
    BY <1>2, <1>6, <1>7, <1>10
  <2> QED
    BY <2>1 DEF Early
<1>12. PICK c : \A x \in W \ {d} : Rank(m, V, x) >= n
                  => Rank(m, W, x) >= n \/ (x.id = c /\ Rank(m, W, d) >= n)
  BY <1>9
<1>13. Late(m, V, H, n) \subseteq Late(m, W, H, n) \cup {c}
  <2> SUFFICES ASSUME NEW i \in H, NEW x \in V, x.id = i, Rank(m, V, x) >= n
               PROVE  i \in Late(m, W, H, n) \cup {c}
    BY DEF Late
  <2>1. CASE x = e
    <3>1. Rank(m, W, d) >= n
      BY <1>1, <1>5, <1>6, <1>7, <2>1
    <3> QED
      BY <2>1, <3>1 DEF Late
  <2>2. CASE x # e
    BY <1>2, <1>12, <2>2 DEF Late
  <2> QED
    BY <2>1, <2>2
<1>14. PICK b : \A x \in W \ {d} : Rank(m, V, x) >= t
                  => Rank(m, W, x) >= t \/ (x.id = b /\ Rank(m, W, d) >= t)
  BY <1>9
<1> DEFINE a == IF Rank(m, W, d) >= t THEN b ELSE d.id
<1>15. ASSUME NEW i \in Early(m, V, C, n) \cup Late(m, V, C, t)
       PROVE  i \in (Early(m, W, C, n) \cup Late(m, W, C, t)) \cup {a}
  <2>1. PICK x \in V : i \in C /\ x.id = i /\ (Rank(m, V, x) < n \/ Rank(m, V, x) >= t)
    BY <1>15 DEF Early, Late
  <2>2. CASE x = e
    <3>1. Rank(m, W, d) >= t => i \in Late(m, W, C, t)
      BY <2>1, <2>2 DEF Late
    <3> QED
      BY <2>1, <2>2, <3>1
  <2>3. CASE x # e
    <3>1. x \in W \ {d} /\ Rank(m, W, x) <= Rank(m, V, x) /\ Rank(m, W, x) \in Nat /\ Rank(m, V, x) \in Nat
      BY <1>2, <1>6, <1>7, <1>10, <2>3
    <3>2. CASE Rank(m, V, x) < n
      <4>1. Rank(m, W, x) < n
        BY <3>1, <3>2
      <4> QED
        BY <2>1, <3>1, <4>1 DEF Early
    <3>3. CASE Rank(m, V, x) >= t
      BY <1>14, <2>1, <3>1, <3>3 DEF Late
    <3> QED
      BY <2>1, <3>2, <3>3
  <2> QED
    BY <2>2, <2>3
<1> HIDE DEF a
<1>16. Early(m, V, C, n) \cup Late(m, V, C, t)
         \subseteq (Early(m, W, C, n) \cup Late(m, W, C, t)) \cup {a}
  BY <1>15
<1> QED
  BY <1>11, <1>13, <1>16 DEF Shifts, V

\* Sorting without ties, the database has each document at its rank.
LEMMA SortedByRank ==
  ASSUME NEW m \in Directions, NEW W, WithIds(W), NEW s \in Orders(W),
         \A d, e \in W : d # e => Before(d, e) \/ Before(e, d),
         \A d, e \in W : Before(d, e) => Precedes(m, d, e)
  PROVE  /\ \A i \in 1 .. Cardinality(W) : s[i] \in W /\ Rank(m, W, s[i]) = i - 1
         /\ \A x \in W : \E i \in 1 .. Cardinality(W) : s[i] = x
<1> DEFINE c == Cardinality(W)
<1>1. c \in Nat
  BY FS_CardinalityType DEF WithIds
<1>2. /\ s \in [1 .. c -> W]
      /\ \A i, j \in 1 .. c : s[i] = s[j] => i = j
      /\ \A i, j \in 1 .. c : i < j => ~Before(s[j], s[i])
  BY DEF Orders, IsInjective
<1>3. IsFiniteSet(W) /\ Cardinality(W) = c
  BY DEF WithIds
<1> HIDE DEF c
<1>4. \A x \in W : \E i \in 1 .. c : s[i] = x
  <2>1. s \in Injection(1 .. c, W)
    BY <1>2 DEF Injection, IsInjective
  <2>2. IsFiniteSet(1 .. c) /\ Cardinality(1 .. c) = c
    BY <1>1, FS_Interval
  <2>3. s \in Surjection(1 .. c, W)
    BY <1>3, <2>1, <2>2, FS_Injection
  <2> QED
    BY <2>3 DEF Surjection
<1>5. ASSUME NEW i \in 1 .. c, NEW j \in 1 .. c, i < j
      PROVE  Precedes(m, s[i], s[j]) /\ ~Precedes(m, s[j], s[i])
  <2>1. s[i] \in W /\ s[j] \in W /\ s[i] # s[j] /\ s[i] \in Docs /\ s[j] \in Docs
    BY <1>1, <1>2, <1>5 DEF WithIds
  <2>2. Precedes(m, s[i], s[j])
    BY <1>2, <1>5, <2>1
  <2> QED
    BY <2>1, <2>2, PrecedesIsOrder
<1>6. ASSUME NEW i \in 1 .. c
      PROVE  Rank(m, W, s[i]) = i - 1
  <2> DEFINE g == [j \in 1 .. i - 1 |-> s[j]]
             A == PrecedingIn(m, W, s[i])
  <2>1. \A j \in 1 .. i - 1 : j \in 1 .. c /\ j < i
    BY <1>1
  <2>2. \A j \in 1 .. i - 1 : s[j] \in A
    BY <1>2, <1>5, <2>1 DEF PrecedingIn
  <2>3. \A x \in A : \E j \in 1 .. i - 1 : s[j] = x
    <3> SUFFICES ASSUME NEW x \in W, Precedes(m, x, s[i])
                 PROVE  \E j \in 1 .. i - 1 : s[j] = x
      BY DEF PrecedingIn
    <3>1. PICK j \in 1 .. c : s[j] = x
      BY <1>4
    <3>2. j # i
      BY <1>2, <3>1, PrecedesIsOrder DEF WithIds
    <3>3. ~(i < j)
      BY <1>5, <3>1
    <3>4. j \in 1 .. i - 1
      BY <1>1, <3>2, <3>3
    <3> QED
      BY <3>1, <3>4
  <2>4. \A j, k \in 1 .. i - 1 : s[j] = s[k] => j = k
    BY <1>2, <2>1
  <2> HIDE DEF A
  <2>5. g \in Bijection(1 .. i - 1, A)
    BY <2>2, <2>3, <2>4 DEF Bijection, Injection, Surjection, IsInjective
  <2>6. ExistsBijection(1 .. i - 1, A)
    BY <2>5 DEF ExistsBijection
  <2>7. i - 1 \in Nat
    BY <1>1
  <2>8. Cardinality(A) = i - 1
    BY <2>6, <2>7, FS_CountingElements
  <2> QED
    BY <2>8 DEF Rank, A
<1> QED
  BY <1>2, <1>4, <1>6 DEF c

\* A page starts behind those that are skipped.
LEMMA PageElements ==
  ASSUME NEW W, IsFiniteSet(W), NEW s \in Orders(W), walk.page \in Nat \ {0}
  PROVE  LET c == Cardinality(W)
             k == Skip(walk.page)
             p == PageOf(s)
         IN  /\ k \in Nat /\ c \in Nat /\ Len(p) \in Nat /\ DOMAIN p = 1 .. Len(p)
             /\ Len(p) = IF c <= k THEN 0 ELSE IF k + Limit < c THEN Limit ELSE c - k
             /\ \A i \in 1 .. Len(p) : k + i \in 1 .. c /\ p[i] = s[k + i]
<1> DEFINE c == Cardinality(W)
           k == Skip(walk.page)
           l == IF k + Limit < c THEN k + Limit ELSE c
<1>1. c \in Nat
  BY FS_CardinalityType
<1>2. s \in [1 .. c -> W]
  BY DEF Orders
<1>3. k \in Nat /\ Limit \in Nat
  <2>1. walk.page - 1 \in Nat /\ Limit \in Nat
    BY QueriesAssumption
  <2> QED
    BY <2>1 DEF Skip
<1>4. Len(s) = c
  BY <1>1, <1>2
<1> HIDE DEF c, k
<1>5. l \in Int /\ l <= c /\ l <= k + Limit /\ l = IF k + Limit < c THEN k + Limit ELSE c
  BY <1>1, <1>3
<1>6. PageOf(s) = SubSeq(s, k + 1, l)
  BY <1>4 DEF PageOf, k
<1> HIDE DEF l
<1>7. \A i \in k + 1 .. l : s[i] \in W
  BY <1>1, <1>2, <1>3, <1>5
<1> DEFINE p == SubSeq(s, k + 1, l)
<1>8. /\ p \in Seq(W) /\ Len(p) = IF k + 1 <= l THEN l - (k + 1) + 1 ELSE 0
      /\ \A i \in 1 .. l - (k + 1) + 1 : p[i] = s[k + 1 + i - 1]
  <2>1. k + 1 \in Int /\ l \in Int
    BY <1>3, <1>5
  <2> QED
    BY <1>7, <2>1, SubSeqProperties
<1>9. DOMAIN p = 1 .. Len(p) /\ Len(p) \in Nat
  BY <1>8
<1> HIDE DEF p
<1>10. Len(p) = IF c <= k THEN 0 ELSE IF k + Limit < c THEN Limit ELSE c - k
  <2>1. CASE k + Limit < c
    BY <1>1, <1>3, <1>5, <1>8, <2>1
  <2>2. CASE ~(k + Limit < c)
    BY <1>1, <1>3, <1>5, <1>8, <2>2
  <2> QED
    BY <2>1, <2>2
<1>11. \A i \in 1 .. Len(p) : k + i \in 1 .. c /\ p[i] = s[k + i]
  BY <1>1, <1>3, <1>5, <1>8, <1>9
<1> QED
  BY <1>1, <1>3, <1>6, <1>9, <1>10, <1>11 DEF p, c, k

\* A page without ties has the documents of the ranks that it is for; only the
\* last one is short, and it has a number of different ids.
LEMMA PageRanks ==
  ASSUME NEW m \in Directions, NEW W, WithIds(W), NEW s \in Orders(W), walk.page \in Nat \ {0},
         \A d, e \in W : d # e => Before(d, e) \/ Before(e, d),
         \A d, e \in W : Before(d, e) => Precedes(m, d, e)
  PROVE  LET p == PageOf(s)
             n == Skip(walk.page)
         IN  /\ \A x \in W : x.id \in Ids(Range(p)) <=> n <= Rank(m, W, x) /\ Rank(m, W, x) < n + Limit
             /\ Ids(Range(p)) \subseteq Ids(W)
             /\ Len(p) < Limit => \A x \in W : Rank(m, W, x) < n + Limit
             /\ p = <<>> => \A x \in W : Rank(m, W, x) < n
<1> DEFINE p == PageOf(s)
           n == Skip(walk.page)
           c == Cardinality(W)
<1>1. /\ n \in Nat /\ c \in Nat /\ Len(p) \in Nat /\ DOMAIN p = 1 .. Len(p)
      /\ Len(p) = IF c <= n THEN 0 ELSE IF n + Limit < c THEN Limit ELSE c - n
      /\ \A i \in 1 .. Len(p) : n + i \in 1 .. c /\ p[i] = s[n + i]
  BY PageElements DEF WithIds
<1>2. /\ \A i \in 1 .. c : s[i] \in W /\ Rank(m, W, s[i]) = i - 1
      /\ \A x \in W : \E i \in 1 .. c : s[i] = x
  BY SortedByRank
<1>3. Limit \in Nat \ {0}
  BY QueriesAssumption
<1>4. p = <<>> => Len(p) = 0
  OBVIOUS
<1> HIDE DEF p, n, c
<1>5. \A x \in Range(p) : \E i \in 1 .. Len(p) : x = p[i]
  BY <1>1 DEF Range
<1>6. \A i \in 1 .. Len(p) : p[i] \in Range(p)
  BY <1>1 DEF Range
<1>7. \A x \in Range(p) : x \in W
  BY <1>1, <1>2, <1>5
<1>8. ASSUME NEW x \in W
      PROVE  x \in Range(p) <=> n <= Rank(m, W, x) /\ Rank(m, W, x) < n + Limit
  <2>1. PICK j \in 1 .. c : s[j] = x
    BY <1>2
  <2>2. Rank(m, W, x) = j - 1 /\ j \in Nat
    BY <1>2, <2>1
  <2>3. ASSUME x \in Range(p)
        PROVE  n <= j - 1 /\ j - 1 < n + Limit
    <3>1. PICK i \in 1 .. Len(p) : x = p[i]
      BY <1>5, <2>3
    <3>2. n + i \in 1 .. c /\ Rank(m, W, x) = n + i - 1
      BY <1>1, <1>2, <3>1
    <3>3. j = n + i
      BY <1>1, <2>2, <3>2
    <3>4. Len(p) <= Limit
      BY <1>1, <1>3
    <3> QED
      BY <1>1, <1>3, <3>1, <3>3, <3>4
  <2>4. ASSUME n <= j - 1, j - 1 < n + Limit
        PROVE  x \in Range(p)
    <3>1. j - n \in 1 .. Len(p) /\ n + (j - n) = j
      BY <1>1, <1>3, <2>2, <2>4
    <3>2. p[j - n] = s[j]
      BY <1>1, <3>1
    <3> QED
      BY <1>6, <2>1, <3>1, <3>2
  <2> QED
    BY <2>2, <2>3, <2>4
<1>9. \A x \in W : x.id \in Ids(Range(p)) <=> x \in Range(p)
  BY <1>7 DEF Ids, WithIds
<1>10. ASSUME NEW x \in W
       PROVE  Rank(m, W, x) \in Nat /\ Rank(m, W, x) < c
  BY RankNat DEF c
<1>11. Len(p) < Limit => \A x \in W : Rank(m, W, x) < n + Limit
  BY <1>1, <1>3, <1>10
<1>12. Len(p) = 0 => \A x \in W : Rank(m, W, x) < n
  BY <1>1, <1>3, <1>10
<1> QED
  BY <1>4, <1>7, <1>8, <1>9, <1>11, <1>12 DEF p, n, Ids

\* A sequence of documents with different ids has as many ids as elements.
LEMMA IdsOfDifferent ==
  ASSUME NEW p \in Seq(Docs), \A i, j \in DOMAIN p : p[i].id = p[j].id => i = j
  PROVE  IsFiniteSet(Ids(Range(p))) /\ Cardinality(Ids(Range(p))) = Len(p)
<1> DEFINE n == Len(p)
           I == Ids(Range(p))
           g == [i \in 1 .. n |-> p[i].id]
<1>1. n \in Nat /\ DOMAIN p = 1 .. n
  OBVIOUS
<1>2. \A i \in 1 .. n : p[i].id \in I
  BY <1>1 DEF Ids, Range
<1>3. \A x \in I : \E i \in 1 .. n : p[i].id = x
  BY <1>1 DEF Ids, Range
<1> HIDE DEF I, n
<1>4. g \in Bijection(1 .. n, I)
  BY <1>1, <1>2, <1>3 DEF Bijection, Injection, Surjection, IsInjective
<1>5. ExistsBijection(1 .. n, I)
  BY <1>4 DEF ExistsBijection
<1>6. Cardinality(I) = n
  BY <1>1, <1>5, FS_CountingElements
<1>7. IsFiniteSet(I)
  BY <1>1, <1>5, FS_NatBijection
<1> QED
  BY <1>6, <1>7 DEF I, n

\* Sets that have one element more.
LEMMA OneMore ==
  ASSUME NEW X, IsFiniteSet(X), NEW Y, \E a : Y \subseteq X \cup {a}
  PROVE  IsFiniteSet(Y) /\ Cardinality(Y) \in Nat /\ Cardinality(X) \in Nat
         /\ Cardinality(Y) <= Cardinality(X) + 1
<1>1. PICK a : Y \subseteq X \cup {a}
  OBVIOUS
<1>2. /\ IsFiniteSet(X \cup {a})
      /\ Cardinality(X \cup {a}) = IF a \in X THEN Cardinality(X) ELSE Cardinality(X) + 1
  BY FS_AddElement
<1>3. Cardinality(X) \in Nat
  BY FS_CardinalityType
<1>4. IsFiniteSet(Y) /\ Cardinality(Y) <= Cardinality(X \cup {a})
  <2>1. Y \in SUBSET (X \cup {a})
    BY <1>1
  <2> QED
    BY <1>2, <2>1, FS_Subset
<1>5. Cardinality(Y) \in Nat
  BY <1>4, FS_CardinalityType
<1> QED
  BY <1>2, <1>3, <1>4, <1>5

\* Sets that have no more.
LEMMA NoMore ==
  ASSUME NEW X, IsFiniteSet(X), NEW Y, Y \subseteq X
  PROVE  IsFiniteSet(Y) /\ Cardinality(Y) \in Nat /\ Cardinality(X) \in Nat
         /\ Cardinality(Y) <= Cardinality(X)
<1>1. Y \in SUBSET X
  OBVIOUS
<1>2. IsFiniteSet(Y) /\ Cardinality(Y) <= Cardinality(X)
  BY <1>1, FS_Subset
<1> QED
  BY <1>2, FS_CardinalityType

\* The ids of finitely many documents are finitely many.
LEMMA IdsFinite ==
  ASSUME NEW W, WithIds(W)
  PROVE  IsFiniteSet(Ids(W))
<1> DEFINE g == [i \in Ids(W) |-> CHOOSE d \in W : d.id = i]
<1>1. \A i \in Ids(W) : g[i] \in W /\ g[i].id = i
  BY DEF Ids
<1> HIDE DEF g
<1>2. g \in [Ids(W) -> W]
  BY <1>1 DEF g
<1>3. \A i, j \in Ids(W) : g[i] = g[j] => i = j
  BY <1>1
<1>4. g \in Injection(Ids(W), W)
  BY <1>2, <1>3 DEF Injection, IsInjective
<1> QED
  BY <1>4, FS_Injection DEF WithIds

\* So are those of the early and of the late ones.
LEMMA PlacesFinite ==
  ASSUME NEW m, NEW W, WithIds(W), NEW C, NEW n
  PROVE  /\ IsFiniteSet(Early(m, W, C, n)) /\ IsFiniteSet(Late(m, W, C, n))
         /\ Early(m, W, C, n) \subseteq Ids(W) /\ Late(m, W, C, n) \subseteq Ids(W)
<1>1. Early(m, W, C, n) \subseteq Ids(W) /\ Late(m, W, C, n) \subseteq Ids(W)
  BY DEF Early, Late, Ids
<1> QED
  BY <1>1, IdsFinite, NoMore

\* What a walk has to show, and has shown or is about to show.
Due == {i \in Nat : \E d \in walk.start :
          d.id = i /\ MayBeSeen(d) /\ (walk.asker # Nobody => walk.asker \in d.users)}
HasPage == walk.pc \in {"classes", "reply"}
Page == IF HasPage THEN Ids(Range(found)) ELSE {}
Seen == Range(walk.seen)
Had == Seen \cup Page
Past == IF HasPage THEN Skip(walk.page) + Limit ELSE Skip(walk.page)
Again == Len(walk.seen) - Cardinality(Seen)

SameButStamp(d, e) == d.id = e.id => d.class = e.class /\ d.sub = e.sub /\ d.users = e.users

\* Nobody changes what a document is for; the ids are numbers given one by one.
DataOK ==
  /\ walk.start \in SUBSET Docs
  /\ \A d, e \in walk.start : d.id = e.id => d = e
  /\ \A e \in walk.start : e.id <= Cardinality(walk.start)
  /\ \A d \in store : d.stamp <= clock /\ \A e \in walk.start : SameButStamp(d, e)
  /\ \A i \in DOMAIN found :
       /\ found[i].id <= Cardinality(walk.start) + writes
       /\ walk.asker # Nobody => walk.asker \in found[i].users
       /\ \A e \in walk.start : SameButStamp(found[i], e)
  /\ \A i, j \in DOMAIN found : found[i].id = found[j].id => i = j
  /\ \A i \in DOMAIN walk.seen : walk.seen[i] <= Cardinality(walk.start) + writes

\* What is shown of a page: documents of it, all that are due, each once.
ShownWell(out, n) ==
  /\ \A k \in DOMAIN out : \E i \in 1 .. n : out[k] = found[i]
  /\ \A k, l \in DOMAIN out : out[k].id = out[l].id => k = l
  /\ \A i \in 1 .. n : MayBeSeen(found[i]) => \E k \in DOMAIN out : out[k] = found[i]
  /\ (\A i \in DOMAIN found : MayBeSeen(found[i])) => Len(out) = n

ShownOK ==
  walk.pc = "reply" => /\ ShownWell(shown, Len(found))
                       /\ walk.kind # "message" => shown = found

\* ClassOf asks for the class or the subclass, so that who may see a message does.
LEMMA ShownMore ==
  ASSUME QueriesInv, DataOK, NEW n \in 1 .. Len(found), NEW r \in Siftings,
         SiftedSoFar(r, n - 1), ShownWell(r.out, n - 1)
  PROVE  ShownWell(NextMessage(r, found[n]).out, n)
<1> DEFINE m == found[n]
           class == ClassOf(r.map, m)
           next == NextMessage(r, m)
           out == r.out
           more == next.out
<1>1. /\ n \in Nat /\ DOMAIN found = 1 .. Len(found) /\ n - 1 \in Nat
      /\ \A i \in 1 .. n - 1 : i \in 1 .. n /\ i # n
      /\ \A i \in 1 .. n : i \in 1 .. n - 1 \/ i = n
      /\ \A i \in 1 .. n : i \in DOMAIN found
      /\ m \in Docs
  BY DEF QueriesInv, PageOK
<1>2. out \in Seq(Docs) /\ DOMAIN out = 1 .. Len(out) /\ Len(out) \in Nat
  BY DEF Siftings
<1>3. MayBeSeen(m) => Shows(m, class)
  <2>1. \A k \in DOMAIN r.map : r.map[k] = k
    BY DEF SiftedSoFar
  <2>2. class \in {m.class, m.sub}
    BY <2>1 DEF ClassOf
  <2> HIDE DEF class, m
  <2> QED
    BY <2>2 DEF MayBeSeen, Shows
<1>4. more = IF Shows(m, class) THEN Append(out, m) ELSE out
  BY DEF NextMessage
<1>5. \A i \in 1 .. n - 1 : found[i].id # m.id
  BY <1>1 DEF DataOK
<1>6. ShownWell(out, n - 1)
  OBVIOUS
<1>7. m = found[n] /\ n \in 1 .. n
  BY <1>1
<1>8. (\A i \in DOMAIN found : MayBeSeen(found[i])) => MayBeSeen(m)
  BY <1>1
<1> HIDE DEF m, class, next, out, more
<1>9. ASSUME Shows(m, class)
      PROVE  ShownWell(more, n)
  <2>1. /\ DOMAIN more = 1 .. Len(out) + 1 /\ Len(more) = Len(out) + 1
        /\ \A k \in 1 .. Len(out) : more[k] = out[k]
        /\ more[Len(out) + 1] = m
    BY <1>1, <1>2, <1>4, <1>9
  <2>2. \A k \in DOMAIN more : k \in DOMAIN out \/ k = Len(out) + 1
    BY <1>2, <2>1
  <2>3. Len(out) + 1 \in DOMAIN more /\ DOMAIN out \subseteq DOMAIN more
    BY <1>2, <2>1
  <2>4. \A k \in DOMAIN more : \E i \in 1 .. n : more[k] = found[i]
    BY <1>1, <1>2, <1>6, <1>7, <2>1, <2>2 DEF ShownWell
  <2>5. \A k, l \in DOMAIN more : more[k].id = more[l].id => k = l
    <3>1. \A k \in DOMAIN out : out[k].id # m.id
      BY <1>5, <1>6 DEF ShownWell
    <3>2. \A k, l \in DOMAIN out : out[k].id = out[l].id => k = l
      BY <1>6 DEF ShownWell
    <3> QED
      BY <1>2, <2>1, <2>2, <3>1, <3>2
  <2>6. \A i \in 1 .. n : MayBeSeen(found[i]) => \E k \in DOMAIN more : more[k] = found[i]
    <3>1. \A i \in 1 .. n - 1 : MayBeSeen(found[i]) => \E k \in DOMAIN out : out[k] = found[i]
      BY <1>6 DEF ShownWell
    <3>2. \E k \in DOMAIN more : more[k] = found[n]
      BY <1>7, <2>1, <2>3
    <3> QED
      BY <1>1, <1>2, <2>1, <2>3, <3>1, <3>2
  <2>7. (\A i \in DOMAIN found : MayBeSeen(found[i])) => Len(more) = n
    BY <1>1, <1>6, <2>1 DEF ShownWell
  <2> QED
    BY ONLY <2>4, <2>5, <2>6, <2>7 DEF ShownWell
<1>10. ASSUME ~Shows(m, class)
       PROVE  ShownWell(more, n)
  <2>1. more = out /\ ~MayBeSeen(found[n])
    BY <1>3, <1>4, <1>7, <1>10
  <2>2. \A i \in 1 .. n : MayBeSeen(found[i]) => i \in 1 .. n - 1
    BY <1>1, <2>1
  <2>3. ~\A i \in DOMAIN found : MayBeSeen(found[i])
    BY <1>3, <1>8, <1>10
  <2>4. \A k \in DOMAIN out : \E i \in 1 .. n : out[k] = found[i]
    BY <1>1, <1>6 DEF ShownWell
  <2>5. \A k, l \in DOMAIN out : out[k].id = out[l].id => k = l
    BY <1>6 DEF ShownWell
  <2>6. \A i \in 1 .. n : MayBeSeen(found[i]) => \E k \in DOMAIN out : out[k] = found[i]
    BY <1>6, <2>2 DEF ShownWell
  <2>7. ShownWell(out, n)
    BY ONLY <2>3, <2>4, <2>5, <2>6 DEF ShownWell
  <2> QED
    BY <2>1, <2>7
<1> QED
  BY <1>9, <1>10 DEF more, next, m

\* It holds of what LookUpClasses shows.
LEMMA ShownAll ==
  ASSUME QueriesInv, DataOK
  PROVE  ShownWell(Sifted.out, Len(found))
<1>1. PICK f : /\ Sifted = f[Len(found)] /\ f[0] = NothingYet
               /\ \A i \in 1 .. Len(found) : f[i] = NextMessage(f[i - 1], found[i])
  BY SiftedByOne DEF QueriesInv, PageOK
<1> DEFINE n == Len(found)
           P == {i \in 0 .. n : f[i] \in Siftings /\ SiftedSoFar(f[i], i) /\ ShownWell(f[i].out, i)}
<1>2. n \in Nat /\ found \in Seq(Docs) /\ \A i \in 1 .. n : found[i] \in Docs /\ i - 1 \in 0 .. n
  BY DEF QueriesInv, PageOK
<1>3. 0 \in P
  <2>1. NothingYet.out = <<>> /\ NothingYet.map = <<>>
    BY DEF NothingYet
  <2>2. SiftedSoFar(NothingYet, 0)
    BY <2>1 DEF SiftedSoFar
  <2>3. ShownWell(<<>>, 0)
    BY DEF ShownWell
  <2> QED
    BY <1>1, <1>2, <2>1, <2>2, <2>3, NothingSifted
<1>4. ASSUME NEW i \in 1 .. n, i - 1 \in P
      PROVE  i \in P
  <2>1. f[i] = NextMessage(f[i - 1], found[i])
    BY <1>1
  <2>2. f[i - 1] \in Siftings /\ SiftedSoFar(f[i - 1], i - 1) /\ ShownWell(f[i - 1].out, i - 1)
    BY <1>4
  <2>3. f[i] \in Siftings
    BY <1>2, <2>1, <2>2, OneSifted
  <2>4. SiftedSoFar(f[i], i)
    BY <1>2, <2>1, <2>2, SiftedMore
  <2>5. ShownWell(f[i].out, i)
    BY <2>1, <2>2, ShownMore
  <2> QED
    BY <1>2, <2>3, <2>4, <2>5
<1> HIDE DEF P
<1>5. 0 .. n \subseteq P
  BY <1>2, <1>3, <1>4, Throughout
<1>6. n \in P
  BY <1>2, <1>5
<1> QED
  BY <1>1, <1>6 DEF P

\* Few of the documents that are due have been passed over: ...
Open == Due \ Had
Overlooked == Early(Direction, Wanted, Open, Past)
Beyond == Late(Direction, Wanted, Open, walk.total)
Left == Open \cap Ids(store)

\* ... while the walk goes on ...
FewOverlooked == walk.pc \notin {"done", "failed"} => Cardinality(Overlooked) <= walk.shifts

\* ... together with those that the total does not count, ...
FewBeyond == walk.pc = "find" => Cardinality(Overlooked \cup Beyond) <= walk.shifts

\* ... and all of them on the last page.
LastPage ==
  IF walk.byTotal THEN walk.page * Limit >= walk.total \/ found = <<>> ELSE Len(found) < Limit

FewLeft ==
  (HasPage /\ LastPage) \/ (walk.pc = "done" /\ Suits) => Cardinality(Left) <= walk.shifts

\* Few of those that were shown came once more, are on the page again, or are
\* still to come.
Returning == Late(Direction, Wanted, Had, Past)

FewAgain ==
  /\ walk.pc \notin {"done", "failed"}
       => Again + Cardinality(Page \cap Seen) + Cardinality(Returning) <= walk.repeats
  /\ walk.pc = "done" => Again <= walk.repeats

PagesInv ==
  /\ DataOK /\ ShownOK
  /\ ~walk.tied => FewOverlooked /\ FewBeyond /\ FewLeft /\ FewAgain

\* What a walk is about does not change.
SameWalk ==
  /\ walk'.kind = walk.kind /\ walk'.asker = walk.asker /\ walk'.desc = walk.desc
  /\ walk'.start = walk.start /\ walk'.byTotal = walk.byTotal

LEMMA SameWalkSame ==
  ASSUME SameWalk
  PROVE  /\ Direction' = Direction /\ Due' = Due /\ Suits' = Suits
         /\ \A d : MayBeSeen(d)' = MayBeSeen(d)
         /\ store' = store => Wanted' = Wanted
         /\ \A d \in store : d \in Wanted <=> (walk.asker # Nobody => walk.asker \in d.users)
<1>1. Direction' = Direction
  BY DEF SameWalk, Direction, Sorted
<1>2. \A d : MayBeSeen(d)' = MayBeSeen(d)
  BY DEF SameWalk, MayBeSeen
<1>3. Due' = Due
  BY DEF SameWalk, Due, MayBeSeen
<1>4. Suits' = Suits
  BY DEF SameWalk, Suits
<1>5. store' = store => Wanted' = Wanted
  BY DEF SameWalk, Wanted
<1> QED
  BY <1>1, <1>2, <1>3, <1>4, <1>5 DEF Wanted

\* The sets that are counted are finite.
LEMMA FiniteCounts ==
  ASSUME QueriesInv, DataOK
  PROVE  /\ Direction \in Directions
         /\ WithIds(store) /\ WithIds(Wanted)
         /\ IsFiniteSet(Ids(store)) /\ IsFiniteSet(Left)
         /\ IsFiniteSet(Overlooked) /\ IsFiniteSet(Beyond) /\ IsFiniteSet(Overlooked \cup Beyond)
         /\ IsFiniteSet(Returning)
         /\ IsFiniteSet(Seen) /\ Cardinality(Seen) \in Nat /\ Again \in Int
         /\ IsFiniteSet(Ids(Range(found))) /\ Cardinality(Ids(Range(found))) = Len(found)
         /\ Past \in Nat /\ Skip(walk.page) \in Nat /\ walk.total \in Nat
         /\ walk.shifts \in Nat /\ walk.repeats \in Nat
<1>1. Direction \in Directions
  BY DEF Direction, Directions
<1>2. WithIds(store)
  BY DEF QueriesInv, StoreOK, WithIds
<1>3. WithIds(Wanted)
  <2>1. IsFiniteSet(Wanted) /\ Wanted \subseteq Docs /\ Wanted \subseteq store
    BY WantedFinite DEF QueriesInv, Wanted
  <2> QED
    BY <1>2, <2>1 DEF WithIds
<1>4. IsFiniteSet(Ids(store)) /\ IsFiniteSet(Left)
  <2>1. Left \subseteq Ids(store)
    BY DEF Left
  <2> QED
    BY <1>2, <2>1, IdsFinite, NoMore
<1>5. IsFiniteSet(Overlooked) /\ IsFiniteSet(Beyond) /\ IsFiniteSet(Returning)
  BY <1>3, PlacesFinite DEF Overlooked, Beyond, Returning
<1>6. IsFiniteSet(Overlooked \cup Beyond)
  BY <1>5, FS_Union
<1>7. walk.seen \in Seq(Nat) /\ writes \in Nat /\ Cardinality(walk.start) \in Nat
  BY DEF QueriesInv, WalkOK, StoreOK
<1>8. IsFiniteSet(Seen)
  <2> DEFINE b == Cardinality(walk.start) + writes
  <2>1. Seen \subseteq 0 .. b
    BY <1>7 DEF DataOK, Seen, Range
  <2>2. b \in Nat
    BY <1>7
  <2> HIDE DEF b
  <2>3. IsFiniteSet(0 .. b)
    BY <2>2, FS_Interval
  <2> QED
    BY <2>1, <2>3, NoMore
<1>9. Cardinality(Seen) \in Nat /\ Again \in Int
  BY <1>7, <1>8, FS_CardinalityType DEF Again
<1>10. IsFiniteSet(Ids(Range(found))) /\ Cardinality(Ids(Range(found))) = Len(found)
  BY IdsOfDifferent DEF QueriesInv, PageOK, DataOK
<1>11. Skip(walk.page) \in Nat /\ Past \in Nat
  <2>1. walk.page - 1 \in Nat /\ Limit \in Nat
    BY QueriesAssumption DEF QueriesInv, WalkOK
  <2>2. Skip(walk.page) \in Nat
    BY <2>1 DEF Skip
  <2> QED
    BY <2>1, <2>2 DEF Past
<1>12. walk.total \in Nat /\ walk.shifts \in Nat /\ walk.repeats \in Nat
  BY DEF QueriesInv, WalkOK
<1> QED
  BY <1>1, <1>2, <1>3, <1>4, <1>5, <1>6, <1>8, <1>9, <1>10, <1>11, <1>12

\* What reads only leaves the documents as they are.
LEMMA SameData ==
  ASSUME DataOK, SameWalk, UNCHANGED <<store, clock, writes, found>>, walk'.seen = walk.seen
  PROVE  DataOK'
BY DEF DataOK, SameWalk, SameButStamp

\* A walk that has not begun has passed over nothing and shown nothing.
LEMMA PagesInit == QueriesInit => PagesInv
<1> SUFFICES ASSUME QueriesInit
             PROVE  PagesInv
  OBVIOUS
<1>1. QueriesInv
  BY QueriesInitInv
<1>2. /\ walk.start = store /\ walk.pc = "ask" /\ found = <<>> /\ walk.seen = <<>> /\ walk.page = 1
      /\ \E kind \in DOMAIN Contents : store = Contents[kind]
      /\ clock = Cardinality(store) /\ writes = 0
  BY DEF QueriesInit
<1>3. DataOK
  <2>1. /\ \A d \in store : d.id <= Cardinality(store) /\ d.stamp <= Cardinality(store)
        /\ \A d, e \in store : d.id = e.id => d = e
    BY <1>2, QueriesAssumption
  <2>2. store \in SUBSET Docs
    BY <1>1 DEF QueriesInv, StoreOK
  <2> QED
    BY <1>2, <2>1, <2>2 DEF DataOK, SameButStamp
<1>4. ShownOK
  BY <1>2 DEF ShownOK
<1>5. /\ WithIds(Wanted) /\ Direction \in Directions /\ walk.shifts \in Nat /\ walk.repeats \in Nat
  BY <1>1, <1>3, FiniteCounts
<1>6. Skip(walk.page) = 0
  BY <1>2, QueriesAssumption DEF Skip
<1>7. Past = 0 /\ Page = {} /\ Seen = {} /\ Had = {}
  BY <1>2, <1>6 DEF Past, Page, HasPage, Seen, Had, Range
<1>8. Overlooked = {} /\ Returning = {} /\ Page \cap Seen = {}
  <2>1. \A d \in Wanted : Rank(Direction, Wanted, d) \in Nat
    BY <1>5, RankNat
  <2>2. \A d \in Wanted : ~(Rank(Direction, Wanted, d) < 0)
    BY <2>1
  <2> QED
    BY <1>7, <2>2 DEF Overlooked, Returning, Early, Late
<1>9. Again = 0
  BY <1>2, <1>7, FS_EmptySet DEF Again
<1>10. Cardinality(Overlooked) = 0 /\ Cardinality(Returning) = 0 /\ Cardinality(Page \cap Seen) = 0
  BY <1>8, FS_EmptySet
<1>11. Again + Cardinality(Page \cap Seen) + Cardinality(Returning) = 0
  BY <1>9, <1>10
<1>12. FewOverlooked /\ FewBeyond
  BY <1>2, <1>5, <1>10 DEF FewOverlooked, FewBeyond
<1>13. FewLeft
  BY <1>2 DEF FewLeft, HasPage
<1>14. FewAgain
  BY <1>2, <1>5, <1>11 DEF FewAgain
<1> QED
  BY <1>3, <1>4, <1>12, <1>13, <1>14 DEF PagesInv

\* A request for a page ...
LEMMA AsksPages ==
  ASSUME QueriesInv, PagesInv, NEW kind, Asks(kind)
  PROVE  PagesInv'
<1>1. /\ SameWalk /\ walk.pc = "ask" /\ walk'.pc = "count" /\ walk'.seen = walk.seen
      /\ walk'.page = walk.page /\ walk'.shifts = walk.shifts /\ walk'.repeats = walk.repeats
      /\ walk'.tied = walk.tied /\ UNCHANGED <<store, clock, writes, known, found, shown>>
  BY DEF Asks, SameWalk, QueriesInv, WalkOK
<1>2. DataOK'
  BY <1>1, SameData DEF PagesInv
<1>3. Direction' = Direction /\ Due' = Due /\ Wanted' = Wanted
  BY <1>1, SameWalkSame
<1>4. Page' = Page /\ Seen' = Seen /\ Past' = Past
  BY <1>1 DEF Page, Seen, Past, HasPage, Skip
<1>5. Had' = Had /\ Open' = Open
  BY <1>3, <1>4 DEF Had, Open
<1>6. Overlooked' = Overlooked /\ Returning' = Returning
  BY <1>3, <1>4, <1>5 DEF Overlooked, Returning
<1>7. Again' = Again
  BY <1>1, <1>4 DEF Again
<1> QED
  BY <1>1, <1>2, <1>4, <1>6, <1>7
     DEF PagesInv, ShownOK, FewOverlooked, FewBeyond, FewLeft, FewAgain, HasPage

\* ... and the count: the total leaves nothing out.
LEMMA CountPages ==
  ASSUME QueriesInv, PagesInv, CountAll, UNCHANGED <<store, clock, writes, known>>
  PROVE  PagesInv'
<1>1. /\ SameWalk /\ walk.pc = "count" /\ walk'.pc = "find" /\ walk'.seen = walk.seen
      /\ walk'.page = walk.page /\ walk'.shifts = walk.shifts /\ walk'.repeats = walk.repeats
      /\ walk'.tied = walk.tied /\ walk'.total = Cardinality(Wanted)
      /\ UNCHANGED <<found, shown>>
  BY DEF CountAll, SameWalk, QueriesInv, WalkOK
<1>2. DataOK'
  BY <1>1, SameData DEF PagesInv
<1>3. Direction' = Direction /\ Due' = Due /\ Wanted' = Wanted
  BY <1>1, SameWalkSame
<1>4. Page' = Page /\ Seen' = Seen /\ Past' = Past
  BY <1>1 DEF Page, Seen, Past, HasPage, Skip
<1>5. Had' = Had /\ Open' = Open
  BY <1>3, <1>4 DEF Had, Open
<1>6. Overlooked' = Overlooked /\ Returning' = Returning
  BY <1>3, <1>4, <1>5 DEF Overlooked, Returning
<1>7. Again' = Again
  BY <1>1, <1>4 DEF Again
<1>8. Beyond' = {}
  <2>1. Direction \in Directions /\ WithIds(Wanted)
    BY FiniteCounts DEF PagesInv
  <2>2. \A d \in Wanted : ~(Rank(Direction, Wanted, d) >= Cardinality(Wanted))
    BY <2>1, RankNat
  <2>3. Late(Direction, Wanted, Open, Cardinality(Wanted)) = {}
    BY <2>2 DEF Late
  <2> QED
    BY <1>1, <1>3, <1>5, <2>3 DEF Beyond
<1>9. Overlooked' \cup Beyond' = Overlooked
  BY <1>6, <1>8
<1> QED
  BY <1>1, <1>2, <1>4, <1>6, <1>7, <1>9
     DEF PagesInv, ShownOK, FewOverlooked, FewBeyond, FewLeft, FewAgain, HasPage

\* The database sorts in an order that Precedes completes.
LEMMA BeforePrecedes ==
  ASSUME NEW d, NEW e, Before(d, e)
  PROVE  Precedes(Direction, d, e)
BY DEF Before, Precedes, Direction

\* Two parts of a set have no more elements than the set.
LEMMA TwoParts ==
  ASSUME NEW X, IsFiniteSet(X), NEW A, NEW B, A \subseteq X, B \subseteq X, A \cap B = {}
  PROVE  /\ IsFiniteSet(A) /\ IsFiniteSet(B) /\ Cardinality(A) \in Nat /\ Cardinality(B) \in Nat
         /\ Cardinality(X) \in Nat /\ Cardinality(A) + Cardinality(B) <= Cardinality(X)
<1>1. /\ IsFiniteSet(A) /\ IsFiniteSet(B) /\ Cardinality(A) \in Nat /\ Cardinality(B) \in Nat
      /\ Cardinality(X) \in Nat
  BY NoMore
<1>2. Cardinality(A \cup B) = Cardinality(A) + Cardinality(B) - Cardinality(A \cap B)
  BY <1>1, FS_Union
<1>3. Cardinality(A \cap B) = 0
  BY FS_EmptySet
<1>4. Cardinality(A \cup B) <= Cardinality(X)
  <2>1. A \cup B \subseteq X
    OBVIOUS
  <2> QED
    BY <2>1, NoMore
<1> QED
  BY <1>1, <1>2, <1>3, <1>4

\* Behind a page comes the next.
LEMMA NextSkip ==
  ASSUME NEW page \in Nat \ {0}
  PROVE  Skip(page) + Limit = page * Limit /\ Skip(page + 1) = page * Limit /\ page * Limit \in Nat
<1>1. Limit \in Nat
  BY QueriesAssumption
<1> QED
  BY <1>1 DEF Skip

\* Whoever is due and still there is wanted.
LEMMA DueIsWanted ==
  ASSUME DataOK, NEW i \in Due, i \in Ids(store)
  PROVE  \E d \in Wanted : d.id = i
<1>1. PICK d \in store : d.id = i
  BY DEF Ids
<1>2. PICK e \in walk.start : e.id = i /\ (walk.asker # Nobody => walk.asker \in e.users)
  BY DEF Due
<1>3. d.users = e.users
  BY <1>1, <1>2 DEF DataOK, SameButStamp
<1> QED
  BY <1>1, <1>2, <1>3 DEF Wanted

\* The find takes the documents of the next ranks: those ahead were passed over
\* before, and behind the last page there are only those that the total left out.
LEMMA FindPages ==
  ASSUME QueriesInv, PagesInv, NEW next \in {"reply", "classes"}, FindPage(next),
         next = "reply" => walk.kind # "message", UNCHANGED <<store, clock, writes, known>>
  PROVE  PagesInv'
<1> DEFINE tied == walk.tied \/ \E d, e \in Wanted : d # e /\ ~Before(d, e) /\ ~Before(e, d)
           n == Skip(walk.page)
<1>1. /\ SameWalk /\ walk.pc = "find" /\ walk'.pc = next /\ walk'.seen = walk.seen
      /\ walk'.page = walk.page /\ walk'.shifts = walk.shifts /\ walk'.repeats = walk.repeats
      /\ walk'.tied = tied /\ walk'.total = walk.total
      /\ shown' = IF next = "reply" THEN found' ELSE <<>>
  <2>1. walk' = [walk EXCEPT !.pc = next, !.tied = tied] /\ walk.pc = "find"
        /\ shown' = IF next = "reply" THEN found' ELSE <<>>
    BY DEF FindPage
  <2> HIDE DEF tied
  <2> QED
    BY <2>1 DEF SameWalk, QueriesInv, WalkOK
<1>2. PICK s \in Orders(Wanted) : found' = PageOf(s)
  BY DEF FindPage
<1>3. DataOK /\ walk.page \in Nat \ {0} /\ WithIds(Wanted) /\ Direction \in Directions
  BY FiniteCounts DEF PagesInv, QueriesInv, WalkOK
<1>4. /\ found' \in Seq(Wanted) /\ \A i, j \in DOMAIN found' : found'[i] = found'[j] => i = j
  BY <1>2, <1>3, OnePage DEF WithIds
<1>5. \A i \in DOMAIN found' : found'[i] \in Wanted /\ found'[i] \in store
  BY <1>4 DEF Wanted
<1>6. DataOK'
  <2>1. \A d \in store : d.id <= Cardinality(walk.start) + writes
    BY DEF QueriesInv, StoreOK
  <2>2. \A d, e \in store : d.id = e.id => d = e
    BY DEF QueriesInv, StoreOK
  <2>3. \A i \in DOMAIN found' :
          /\ found'[i].id <= Cardinality(walk.start) + writes
          /\ walk.asker # Nobody => walk.asker \in found'[i].users
          /\ \A e \in walk.start : SameButStamp(found'[i], e)
    BY <1>3, <1>5, <2>1 DEF DataOK, Wanted
  <2>4. \A i, j \in DOMAIN found' : found'[i].id = found'[j].id => i = j
    BY <1>4, <1>5, <2>2
  <2>5. walk'.start = walk.start /\ walk'.asker = walk.asker /\ walk'.seen = walk.seen
    BY <1>1 DEF SameWalk
  <2> QED
    BY <1>3, <2>3, <2>4, <2>5 DEF DataOK, SameButStamp
<1>7. ShownOK'
  <2> SUFFICES ASSUME next = "reply"
               PROVE  ShownWell(shown, Len(found))'
    BY <1>1 DEF ShownOK
  <2>1. shown' = found' /\ DOMAIN found' = 1 .. Len(found')
    BY <1>1, <1>4
  <2>2. \A i, j \in DOMAIN found' : found'[i].id = found'[j].id => i = j
    BY <1>6 DEF DataOK
  <2> QED
    BY <2>1, <2>2 DEF ShownWell
<1> SUFFICES ASSUME ~tied
             PROVE  FewOverlooked' /\ FewBeyond' /\ FewLeft' /\ FewAgain'
  BY <1>1, <1>6, <1>7 DEF PagesInv
<1>8. FewOverlooked /\ FewBeyond /\ FewLeft /\ FewAgain
  BY DEF PagesInv
<1>9. /\ Direction' = Direction /\ Due' = Due /\ Wanted' = Wanted
      /\ Seen' = Seen /\ Page' = Ids(Range(found')) /\ Past' = n + Limit /\ Again' = Again
      /\ Page = {} /\ Past = n /\ Had = Seen
  BY <1>1, SameWalkSame DEF Seen, Page, HasPage, Past, Skip, Had, Again
<1>10. Had' = Seen \cup Page' /\ Open' = Open \ Page'
  BY <1>9 DEF Had, Open
<1>11. /\ \A x \in Wanted : x.id \in Page' <=> n <= Rank(Direction, Wanted, x)
                                               /\ Rank(Direction, Wanted, x) < n + Limit
       /\ Page' \subseteq Ids(Wanted)
       /\ Len(found') < Limit => \A x \in Wanted : Rank(Direction, Wanted, x) < n + Limit
       /\ found' = <<>> => \A x \in Wanted : Rank(Direction, Wanted, x) < n
  <2>1. \A d, e \in Wanted : d # e => Before(d, e) \/ Before(e, d)
    OBVIOUS
  <2>2. \A d, e \in Wanted : Before(d, e) => Precedes(Direction, d, e)
    BY BeforePrecedes
  <2> QED
    BY <1>2, <1>3, <1>9, <2>1, <2>2, PageRanks
<1>12. n \in Nat /\ Limit \in Nat /\ \A x \in Wanted : Rank(Direction, Wanted, x) \in Nat
  BY <1>3, FiniteCounts, RankNat, QueriesAssumption
<1> HIDE DEF tied, n
<1>13. Overlooked' \subseteq Overlooked
  <2> SUFFICES ASSUME NEW d \in Wanted, d.id \in Open \ Page', Rank(Direction, Wanted, d) < n + Limit
               PROVE  d.id \in Overlooked
    BY <1>9, <1>10 DEF Overlooked, Early
  <2>1. Rank(Direction, Wanted, d) < n
    BY <1>11, <1>12
  <2> QED
    BY <1>9, <2>1 DEF Overlooked, Early
<1>14. FewOverlooked'
  <2>1. Cardinality(Overlooked) <= walk.shifts
    BY <1>1, <1>8 DEF FewOverlooked
  <2>2. Cardinality(Overlooked') <= Cardinality(Overlooked) /\ Cardinality(Overlooked') \in Nat
        /\ Cardinality(Overlooked) \in Nat
    BY <1>3, <1>13, FiniteCounts, NoMore
  <2>3. walk.shifts \in Nat
    BY <1>3, FiniteCounts
  <2>4. Cardinality(Overlooked') <= walk'.shifts
    BY <1>1, <2>1, <2>2, <2>3
  <2> QED
    BY <2>4 DEF FewOverlooked
<1>15. FewBeyond'
  BY <1>1 DEF FewBeyond
<1>16. FewLeft'
  <2> SUFFICES ASSUME LastPage'
               PROVE  Cardinality(Left') <= walk'.shifts
    BY <1>1 DEF FewLeft
  <2>1. ASSUME NEW i \in Left'
        PROVE  i \in Overlooked \cup Beyond
    <3>1. i \in Open /\ i \notin Page' /\ i \in Due /\ i \in Ids(store)
      BY <1>9, <1>10 DEF Left, Open
    <3>2. PICK d \in Wanted : d.id = i
      BY <1>3, <3>1, DueIsWanted
    <3>3. Rank(Direction, Wanted, d) < n \/ Rank(Direction, Wanted, d) >= n + Limit
      BY <1>11, <1>12, <3>1, <3>2
    <3>4. CASE Rank(Direction, Wanted, d) < n
      BY <1>9, <3>1, <3>2, <3>4 DEF Overlooked, Early
    <3>5. CASE Rank(Direction, Wanted, d) >= n + Limit
      <4>1. ~(Len(found') < Limit) /\ found' # <<>>
        BY <1>11, <1>12, <3>5
      <4>2. walk.page * Limit >= walk.total
        BY <1>1, <4>1 DEF LastPage, SameWalk
      <4>3. n + Limit = walk.page * Limit
        BY <1>3, NextSkip DEF n
      <4>4. walk.total \in Nat
        BY <1>3, FiniteCounts
      <4>5. Rank(Direction, Wanted, d) >= walk.total
        <5> DEFINE r == Rank(Direction, Wanted, d)
                   l == walk.page * Limit
        <5>1. r \in Nat /\ l \in Nat /\ r >= l /\ l >= walk.total
          BY <1>3, <1>12, <3>5, <4>2, <4>3, NextSkip
        <5> HIDE DEF r, l
        <5>2. r >= walk.total
          BY <4>4, <5>1
        <5> QED
          BY <5>2 DEF r
      <4> QED
        BY <3>1, <3>2, <4>5 DEF Beyond, Late
    <3> QED
      BY <3>3, <3>4, <3>5
  <2>2. Cardinality(Overlooked \cup Beyond) <= walk.shifts
    BY <1>1, <1>8 DEF FewBeyond
  <2>3. Cardinality(Left') <= Cardinality(Overlooked \cup Beyond) /\ Cardinality(Left') \in Nat
        /\ Cardinality(Overlooked \cup Beyond) \in Nat
    <3>1. Left' \subseteq Overlooked \cup Beyond
      BY <2>1
    <3> QED
      BY <1>3, <3>1, FiniteCounts, NoMore
  <2>4. walk.shifts \in Nat
    BY <1>3, FiniteCounts
  <2> QED
    BY <1>1, <2>2, <2>3, <2>4
<1>17. FewAgain'
  <2>1. Again + Cardinality(Page \cap Seen) + Cardinality(Returning) <= walk.repeats
    BY <1>1, <1>8 DEF FewAgain
  <2>2. Cardinality(Page \cap Seen) = 0
    <3>1. Page \cap Seen = {}
      BY <1>9
    <3> QED
      BY <3>1, FS_EmptySet
  <2>3. Page' \cap Seen \subseteq Returning
    <3> SUFFICES ASSUME NEW i \in Page', i \in Seen
                 PROVE  i \in Returning
      OBVIOUS
    <3>1. PICK x \in Wanted : x.id = i
      BY <1>11 DEF Ids
    <3>2. Rank(Direction, Wanted, x) >= n
      BY <1>11, <1>12, <3>1
    <3> QED
      BY <1>9, <3>1, <3>2 DEF Returning, Late
  <2>4. Returning' \subseteq Returning /\ Returning' \cap Page' = {}
    <3> SUFFICES ASSUME NEW i \in Returning'
                 PROVE  i \in Returning /\ i \notin Page'
      OBVIOUS
    <3>1. PICK x \in Wanted : x.id = i /\ i \in Seen \cup Page'
                              /\ Rank(Direction, Wanted, x) >= n + Limit
      BY <1>9, <1>10 DEF Returning, Late
    <3>2. i \notin Page' /\ Rank(Direction, Wanted, x) >= n
      BY <1>11, <1>12, <3>1
    <3> QED
      BY <1>9, <3>1, <3>2 DEF Returning, Late
  <2>5. /\ Cardinality(Page' \cap Seen) \in Nat /\ Cardinality(Returning') \in Nat
        /\ Cardinality(Returning) \in Nat
        /\ Cardinality(Page' \cap Seen) + Cardinality(Returning') <= Cardinality(Returning)
    <3>1. (Page' \cap Seen) \cap Returning' = {}
      BY <2>4
    <3> QED
      BY <1>3, <2>3, <2>4, <3>1, FiniteCounts, TwoParts
  <2>6. Again \in Int /\ walk.repeats \in Nat
    BY <1>3, FiniteCounts
  <2>7. Again + Cardinality(Page' \cap Seen) + Cardinality(Returning') <= walk.repeats
    BY <2>1, <2>2, <2>5, <2>6
  <2> QED
    BY <1>1, <1>9, <2>7 DEF FewAgain
<1> QED
  BY <1>14, <1>15, <1>16, <1>17

\* The lookup of the classes shows of the page what is due.
LEMMA LookUpPages ==
  ASSUME QueriesInv, PagesInv, walk.kind = "message", LookUpClasses,
         UNCHANGED <<store, clock, writes, known>>
  PROVE  PagesInv'
<1> DEFINE lost == Sifted.lost
           out == Sifted.out
           pc == IF lost THEN "failed" ELSE "reply"
<1>1. walk' = [walk EXCEPT !.pc = pc] /\ walk.pc = "classes" /\ found' = found
      /\ shown' = IF lost THEN <<>> ELSE out
  BY DEF LookUpClasses
<1>2. ShownWell(out, Len(found))
  BY ShownAll DEF PagesInv
<1>3. /\ pc = "reply" => ~lost
      /\ pc \in {"reply", "failed"}
  OBVIOUS
<1> HIDE DEF lost, out, pc
<1>4. /\ SameWalk /\ walk'.pc = pc /\ walk'.seen = walk.seen
      /\ walk'.page = walk.page /\ walk'.shifts = walk.shifts /\ walk'.repeats = walk.repeats
      /\ walk'.tied = walk.tied /\ walk'.total = walk.total
  BY <1>1 DEF SameWalk, QueriesInv, WalkOK
<1>5. DataOK'
  BY <1>1, <1>4, SameData DEF PagesInv
<1>6. ShownOK'
  <2> SUFFICES ASSUME pc = "reply"
               PROVE  ShownWell(shown, Len(found))'
    BY <1>4 DEF ShownOK, SameWalk
  <2>1. shown' = out /\ Len(found)' = Len(found)
    BY <1>1, <1>3
  <2>2. \A i : MayBeSeen(found[i])' <=> MayBeSeen(found[i])
    BY <1>1, <1>4 DEF MayBeSeen, SameWalk
  <2>3. found' = found
    BY <1>1
  <2>4. /\ \A k \in DOMAIN out : \E i \in 1 .. Len(found) : out[k] = found[i]
        /\ \A k, l \in DOMAIN out : out[k].id = out[l].id => k = l
        /\ \A i \in 1 .. Len(found) : MayBeSeen(found[i]) => \E k \in DOMAIN out : out[k] = found[i]
        /\ (\A i \in DOMAIN found : MayBeSeen(found[i])) => Len(out) = Len(found)
    BY <1>2 DEF ShownWell
  <2> QED
    BY <2>1, <2>2, <2>3, <2>4 DEF ShownWell
<1>7. CASE pc = "failed"
  BY <1>4, <1>5, <1>6, <1>7
     DEF PagesInv, FewOverlooked, FewBeyond, FewLeft, FewAgain, HasPage
<1>8. CASE pc = "reply"
  <2>1. Direction' = Direction /\ Due' = Due /\ Wanted' = Wanted
    BY <1>4, SameWalkSame
  <2>2. Page' = Page /\ Seen' = Seen /\ Past' = Past
    BY <1>1, <1>4, <1>8 DEF Page, Seen, Past, HasPage, Skip
  <2>3. Had' = Had /\ Open' = Open
    BY <2>1, <2>2 DEF Had, Open
  <2>4. Overlooked' = Overlooked /\ Returning' = Returning /\ Left' = Left
    BY <2>1, <2>2, <2>3 DEF Overlooked, Returning, Left
  <2>5. Again' = Again
    BY <1>4, <2>2 DEF Again
  <2>6. LastPage' = LastPage
    BY <1>1, <1>4 DEF LastPage, SameWalk
  <2> QED
    BY <1>1, <1>4, <1>5, <1>6, <1>8, <2>2, <2>4, <2>5, <2>6
       DEF PagesInv, FewOverlooked, FewBeyond, FewLeft, FewAgain, HasPage
<1> QED
  BY <1>3, <1>7, <1>8

\* A query that fails ends the walk.
LEMMA FailsPages ==
  ASSUME QueriesInv, PagesInv, QueryFails
  PROVE  PagesInv'
<1>1. /\ SameWalk /\ walk'.pc = "failed" /\ walk'.seen = walk.seen /\ walk'.tied = walk.tied
      /\ UNCHANGED <<store, clock, writes, known, found, shown>>
  BY DEF QueryFails, SameWalk, QueriesInv, WalkOK
<1>2. DataOK'
  BY <1>1, SameData DEF PagesInv
<1> QED
  BY <1>1, <1>2 DEF PagesInv, ShownOK, FewOverlooked, FewBeyond, FewLeft, FewAgain, HasPage

\* What is shown of a page are different documents of it, and what is due of it is
\* shown; all of it is, but for a caller who asks for the messages of nobody.
LEMMA ShownIds ==
  ASSUME QueriesInv, DataOK, ShownOK, walk.pc = "reply"
  PROVE  LET S == Ids(Range(shown))
         IN  /\ S \subseteq Page /\ Due \cap Page \subseteq S
             /\ IsFiniteSet(S) /\ Cardinality(S) = Len(shown)
             /\ (walk.kind = "message" => walk.asker # Nobody) => Len(shown) = Len(found)
<1>1. ShownWell(shown, Len(found)) /\ (walk.kind # "message" => shown = found)
  BY DEF ShownOK
<1>2. /\ shown \in Seq(Docs) /\ DOMAIN shown = 1 .. Len(shown)
      /\ found \in Seq(Docs) /\ DOMAIN found = 1 .. Len(found)
  BY DEF QueriesInv, PageOK
<1>3. Page = Ids(Range(found))
  BY DEF Page, HasPage
<1>4. /\ \A k \in DOMAIN shown : \E i \in DOMAIN found : shown[k] = found[i]
      /\ \A k, l \in DOMAIN shown : shown[k].id = shown[l].id => k = l
      /\ \A i \in DOMAIN found : MayBeSeen(found[i]) => \E k \in DOMAIN shown : shown[k] = found[i]
      /\ (\A i \in DOMAIN found : MayBeSeen(found[i])) => Len(shown) = Len(found)
  BY <1>1, <1>2 DEF ShownWell
<1>5. Ids(Range(shown)) \subseteq Page
  BY <1>3, <1>4 DEF Ids, Range
<1>6. ASSUME NEW i \in Due, i \in Page
      PROVE  i \in Ids(Range(shown))
  <2>1. PICK j \in DOMAIN found : found[j].id = i
    BY <1>3, <1>6 DEF Ids, Range
  <2>2. PICK e \in walk.start : e.id = i /\ MayBeSeen(e)
    BY DEF Due
  <2>3. found[j].class = e.class /\ found[j].sub = e.sub /\ found[j].users = e.users
    BY <2>1, <2>2 DEF DataOK, SameButStamp
  <2>4. MayBeSeen(found[j])
    BY <2>2, <2>3 DEF MayBeSeen
  <2>5. PICK k \in DOMAIN shown : shown[k] = found[j]
    BY <1>4, <2>4
  <2> QED
    BY <2>1, <2>5 DEF Ids, Range
<1>7. IsFiniteSet(Ids(Range(shown))) /\ Cardinality(Ids(Range(shown))) = Len(shown)
  BY <1>2, <1>4, IdsOfDifferent
<1>8. ASSUME walk.kind = "message" => walk.asker # Nobody
      PROVE  Len(shown) = Len(found)
  <2>1. CASE walk.kind = "message"
    <3>1. \A i \in DOMAIN found : walk.asker \in found[i].users
      BY <1>8, <2>1 DEF DataOK
    <3> QED
      BY <1>4, <3>1 DEF MayBeSeen
  <2>2. CASE walk.kind # "message"
    BY <1>1, <2>2
  <2> QED
    BY <2>1, <2>2
<1> QED
  BY <1>5, <1>6, <1>7, <1>8

\* The reply: the page has been seen, and the walk goes on behind it, or ends,
\* then with the last page if the caller's way of ending suits the query.
LEMMA RepliesPages ==
  ASSUME QueriesInv, PagesInv, NEW kind, NEW total, Replies(kind, total),
         walk.kind # "template" => total = walk.total
  PROVE  PagesInv'
<1> DEFINE ids == [i \in DOMAIN shown |-> shown[i].id]
           end == IF walk.byTotal THEN walk.page * Limit >= total \/ found = <<>> ELSE Len(shown) < Limit
           S == Ids(Range(shown))
<1>1. /\ walk.pc = "reply"
      /\ walk' = [walk EXCEPT !.seen = walk.seen \o ids, !.pc = IF end THEN "done" ELSE "ask",
                              !.page = IF end THEN walk.page ELSE walk.page + 1]
      /\ UNCHANGED <<store, clock, writes, known, found, shown>>
  BY DEF Replies
<1>2. DataOK /\ ShownOK
  BY DEF PagesInv
<1>3. /\ S \subseteq Page /\ Due \cap Page \subseteq S
      /\ IsFiniteSet(S) /\ Cardinality(S) = Len(shown)
      /\ (walk.kind = "message" => walk.asker # Nobody) => Len(shown) = Len(found)
  BY <1>1, <1>2, ShownIds
<1>4. /\ shown \in Seq(Docs) /\ DOMAIN shown = 1 .. Len(shown) /\ Len(shown) \in Nat
      /\ walk.seen \in Seq(Nat) /\ walk.page \in Nat \ {0}
  BY DEF QueriesInv, PageOK, WalkOK
<1>5. ids \in Seq(Nat) /\ Len(ids) = Len(shown) /\ \A i \in DOMAIN shown : ids[i] = shown[i].id
  <2>1. \A d \in Docs : d.id \in Nat
    BY DocFields
  <2>2. \A i \in DOMAIN shown : shown[i].id \in Nat
    BY <1>4, <2>1
  <2> QED
    BY <1>4, <2>2
<1>6. end <=> IF walk.byTotal THEN walk.page * Limit >= total \/ found = <<>> ELSE Len(shown) < Limit
  OBVIOUS
<1> HIDE DEF ids, end
<1> DEFINE seen == walk.seen \o ids
           pc == IF end THEN "done" ELSE "ask"
           page == IF end THEN walk.page ELSE walk.page + 1
<1>7. walk' = [walk EXCEPT !.seen = seen, !.pc = pc, !.page = page]
  BY <1>1
<1>8. /\ pc \in {"done", "ask"}
      /\ pc = "done" => end
      /\ pc = "ask" => page = walk.page + 1
  OBVIOUS
<1>9. /\ seen \in Seq(Nat) /\ Len(seen) = Len(walk.seen) + Len(ids)
      /\ \A i \in 1 .. Len(walk.seen) + Len(ids) :
           seen[i] = IF i <= Len(walk.seen) THEN walk.seen[i] ELSE ids[i - Len(walk.seen)]
  BY <1>4, <1>5, ConcatProperties
<1> HIDE DEF seen, pc, page
<1>10. /\ SameWalk /\ walk'.pc = pc /\ walk'.seen = seen /\ walk'.page = page
       /\ walk'.shifts = walk.shifts /\ walk'.repeats = walk.repeats
       /\ walk'.tied = walk.tied /\ walk'.total = walk.total
  BY <1>7 DEF SameWalk, QueriesInv, WalkOK
<1>11. /\ \A i \in DOMAIN seen : \/ \E j \in DOMAIN walk.seen : seen[i] = walk.seen[j]
                                 \/ \E k \in DOMAIN shown : seen[i] = shown[k].id
       /\ \A j \in DOMAIN walk.seen : \E i \in DOMAIN seen : seen[i] = walk.seen[j]
       /\ \A k \in DOMAIN shown : \E i \in DOMAIN seen : seen[i] = shown[k].id
  <2> DEFINE m == Len(walk.seen)
             n == Len(ids)
  <2>1. /\ m \in Nat /\ n \in Nat /\ DOMAIN seen = 1 .. m + n /\ DOMAIN walk.seen = 1 .. m
        /\ DOMAIN shown = 1 .. n
    BY <1>4, <1>5, <1>9
  <2>2. \A i \in 1 .. m + n : seen[i] = IF i <= m THEN walk.seen[i] ELSE ids[i - m]
    BY <1>9
  <2>3. \A i \in 1 .. n : ids[i] = shown[i].id
    BY <1>5, <2>1
  <2> HIDE DEF m, n
  <2>4. ASSUME NEW i \in 1 .. m + n
        PROVE  (\E j \in 1 .. m : seen[i] = walk.seen[j]) \/ (\E k \in 1 .. n : seen[i] = shown[k].id)
    <3>1. CASE i <= m
      BY <2>1, <2>2, <3>1
    <3>2. CASE ~(i <= m)
      <4>1. i - m \in 1 .. n
        BY <2>1, <3>2
      <4> QED
        BY <2>2, <2>3, <3>2, <4>1
    <3> QED
      BY <3>1, <3>2
  <2>5. ASSUME NEW j \in 1 .. m
        PROVE  \E i \in 1 .. m + n : seen[i] = walk.seen[j]
    <3>1. j \in 1 .. m + n /\ j <= m
      BY <2>1
    <3> QED
      BY <2>2, <3>1
  <2>6. ASSUME NEW k \in 1 .. n
        PROVE  \E i \in 1 .. m + n : seen[i] = shown[k].id
    <3>1. m + k \in 1 .. m + n /\ ~(m + k <= m) /\ (m + k) - m = k
      BY <2>1
    <3>2. seen[m + k] = ids[k]
      BY <2>2, <3>1
    <3> QED
      BY <2>3, <3>1, <3>2
  <2> QED
    BY <2>1, <2>4, <2>5, <2>6
<1>12. Seen' = Seen \cup S
  BY <1>10, <1>11 DEF Seen, Range, Ids
<1>13. DataOK'
  <2>1. \A i \in DOMAIN seen : seen[i] <= Cardinality(walk.start) + writes
    <3>1. ASSUME NEW k \in DOMAIN shown
          PROVE  shown[k].id <= Cardinality(walk.start) + writes
      <4>1. PICK i \in 1 .. Len(found) : shown[k] = found[i]
        BY <1>1, <1>2 DEF ShownOK, ShownWell
      <4>2. i \in DOMAIN found
        BY DEF QueriesInv, PageOK
      <4> QED
        BY <1>2, <4>1, <4>2 DEF DataOK
    <3>2. \A j \in DOMAIN walk.seen : walk.seen[j] <= Cardinality(walk.start) + writes
      BY <1>2 DEF DataOK
    <3> QED
      BY <1>11, <3>1, <3>2
  <2> QED
    BY <1>1, <1>2, <1>10, <2>1 DEF DataOK, SameWalk, SameButStamp
<1>14. ShownOK'
  BY <1>8, <1>10 DEF ShownOK
<1> SUFFICES ASSUME ~walk.tied
             PROVE  FewOverlooked' /\ FewBeyond' /\ FewLeft' /\ FewAgain'
  BY <1>10, <1>13, <1>14 DEF PagesInv
<1>15. FewOverlooked /\ FewLeft /\ FewAgain
  BY DEF PagesInv
<1>16. Direction' = Direction /\ Due' = Due /\ Wanted' = Wanted /\ Suits' = Suits
  BY <1>1, <1>10, SameWalkSame
<1>17. Page' = {} /\ HasPage /\ ~HasPage'
  BY <1>1, <1>8, <1>10 DEF Page, HasPage
<1>18. Had' = Seen \cup S /\ Had' \subseteq Had /\ Open' = Open
  BY <1>3, <1>12, <1>16, <1>17 DEF Had, Open
<1>19. Left' = Left
  BY <1>1, <1>18 DEF Left
<1>20. pc = "ask" => Past' = Past
  <2> SUFFICES ASSUME pc = "ask"
               PROVE  Past' = Past
    OBVIOUS
  <2>1. Past' = Skip(walk.page + 1) /\ Past = Skip(walk.page) + Limit
    BY <1>8, <1>10, <1>17 DEF Past, Skip
  <2> QED
    BY <1>4, <2>1, NextSkip
<1>21. FewOverlooked'
  <2> SUFFICES ASSUME pc = "ask"
               PROVE  Cardinality(Overlooked') <= walk'.shifts
    BY <1>8, <1>10 DEF FewOverlooked
  <2>1. Overlooked' = Overlooked
    BY <1>16, <1>18, <1>20 DEF Overlooked
  <2> QED
    BY <1>1, <1>10, <1>15, <2>1 DEF FewOverlooked
<1>22. FewBeyond'
  BY <1>8, <1>10 DEF FewBeyond
<1>23. FewLeft'
  <2> SUFFICES ASSUME pc = "done", Suits
               PROVE  LastPage
    BY <1>10, <1>15, <1>16, <1>17, <1>19 DEF FewLeft
  <2>1. CASE walk.byTotal
    <3>1. walk.kind # "template"
      BY <2>1 DEF Suits
    <3> QED
      BY <1>6, <1>8, <2>1, <3>1 DEF LastPage
  <2>2. CASE ~walk.byTotal
    <3>1. walk.kind = "message" => walk.asker # Nobody
      BY <2>2 DEF Suits
    <3> QED
      BY <1>3, <1>6, <1>8, <2>2, <3>1 DEF LastPage
  <2> QED
    BY <2>1, <2>2
<1>24. Again' <= Again + Cardinality(Page \cap Seen) /\ Again' \in Int /\ Again \in Int
       /\ Cardinality(Page \cap Seen) \in Nat /\ walk.repeats \in Nat
  <2>1. IsFiniteSet(Seen) /\ Cardinality(Seen) \in Nat /\ Again \in Int /\ walk.repeats \in Nat
    BY <1>2, FiniteCounts
  <2>2. Cardinality(Seen \cup S) = Cardinality(Seen) + Cardinality(S) - Cardinality(Seen \cap S)
    BY <1>3, <2>1, FS_Union
  <2>3. Cardinality(Seen \cap S) <= Cardinality(Page \cap Seen) /\ Cardinality(Seen \cap S) \in Nat
        /\ Cardinality(Page \cap Seen) \in Nat
    <3>1. IsFiniteSet(Page \cap Seen)
      <4>1. Page \cap Seen \subseteq Seen
        OBVIOUS
      <4> QED
        BY <2>1, <4>1, NoMore
    <3>2. Seen \cap S \subseteq Page \cap Seen
      BY <1>3
    <3> QED
      BY <3>1, <3>2, NoMore
  <2>4. Again' = Len(seen) - Cardinality(Seen \cup S)
    BY <1>10, <1>12 DEF Again
  <2>5. Len(seen) = Len(walk.seen) + Len(shown)
    BY <1>5, <1>9
  <2>6. Again = Len(walk.seen) - Cardinality(Seen) /\ Len(walk.seen) \in Nat
    BY <1>4 DEF Again
  <2>7. Cardinality(S) \in Nat /\ Len(shown) \in Nat /\ Cardinality(S) = Len(shown)
    BY <1>3, <1>4
  <2> DEFINE a == Again
             b == Again'
             c == Cardinality(Page \cap Seen)
             l == Len(walk.seen)
             m == Len(shown)
             p == Cardinality(Seen)
             q == Cardinality(Seen \cap S)
  <2>8. /\ b = (l + m) - (p + m - q) /\ a = l - p /\ q <= c
        /\ l \in Nat /\ m \in Nat /\ p \in Nat /\ q \in Nat /\ c \in Nat /\ a \in Int
    BY <2>1, <2>2, <2>3, <2>4, <2>5, <2>6, <2>7
  <2> HIDE DEF a, b, c, l, m, p, q
  <2>9. b <= a + c /\ b \in Int
    BY <2>8
  <2> QED
    BY <2>1, <2>3, <2>9 DEF a, b, c
<1>25. FewAgain'
  <2>1. Again + Cardinality(Page \cap Seen) + Cardinality(Returning) <= walk.repeats
    BY <1>1, <1>15 DEF FewAgain
  <2>2. IsFiniteSet(Returning) /\ Cardinality(Returning) \in Nat
    BY <1>2, FiniteCounts, FS_CardinalityType
  <2>3. CASE pc = "done"
    <3>1. Again' <= walk.repeats
      BY <1>24, <2>1, <2>2
    <3> QED
      BY <1>10, <2>3, <3>1 DEF FewAgain
  <2>4. CASE pc = "ask"
    <3>1. Returning' \subseteq Returning
      BY <1>16, <1>18, <1>20, <2>4 DEF Returning, Late
    <3>2. Cardinality(Returning') <= Cardinality(Returning) /\ Cardinality(Returning') \in Nat
      BY <2>2, <3>1, NoMore
    <3>3. Cardinality(Page' \cap Seen') = 0
      <4>1. Page' \cap Seen' = {}
        BY <1>17
      <4> QED
        BY <4>1, FS_EmptySet
    <3>4. Again' + Cardinality(Page' \cap Seen') + Cardinality(Returning') <= walk.repeats
      BY <1>24, <2>1, <2>2, <3>2, <3>3
    <3> QED
      BY <1>10, <2>4, <3>4 DEF FewAgain
  <2> QED
    BY <1>8, <2>3, <2>4
<1> QED
  BY <1>21, <1>22, <1>23, <1>25

\* A set has got one element more at most, or none.
Widens(X, Y, more) == IF more THEN \E a : Y \subseteq X \cup {a} ELSE Y \subseteq X

LEMMA WidensByOne ==
  ASSUME NEW X, IsFiniteSet(X), NEW Y, NEW more \in BOOLEAN, Widens(X, Y, more)
  PROVE  /\ Cardinality(X) \in Nat /\ Cardinality(Y) \in Nat
         /\ Cardinality(Y) <= Cardinality(X) + (IF more THEN 1 ELSE 0)
<1>1. CASE more
  <2>1. \E a : Y \subseteq X \cup {a}
    BY <1>1 DEF Widens
  <2>2. /\ Cardinality(X) \in Nat /\ Cardinality(Y) \in Nat
        /\ Cardinality(Y) <= Cardinality(X) + 1
    BY <2>1, OneMore
  <2> QED
    BY <1>1, <2>2
<1>2. CASE ~more
  <2>1. Y \subseteq X
    BY <1>2 DEF Widens
  <2>2. /\ Cardinality(X) \in Nat /\ Cardinality(Y) \in Nat
        /\ Cardinality(Y) <= Cardinality(X)
    BY <2>1, NoMore
  <2> QED
    BY <1>2, <2>2
<1> QED
  BY <1>1, <1>2

\* What a write does to the documents that are wanted, C of which are open and H had.
Moves(W, V, shift, repeat) ==
  /\ Widens(Early(Direction, W, Open, Past), Early(Direction, V, Open, Past), shift)
  /\ Widens(Early(Direction, W, Open, Past) \cup Late(Direction, W, Open, walk.total),
           Early(Direction, V, Open, Past) \cup Late(Direction, V, Open, walk.total), shift)
  /\ Widens(Late(Direction, W, Had, Past), Late(Direction, V, Had, Past), repeat)

\* A write that moves the documents no more than it counts keeps the invariant.
LEMMA WritesPages ==
  ASSUME QueriesInv, PagesInv, NEW shift \in BOOLEAN, NEW repeat \in BOOLEAN, NEW t \in Nat,
         Writes(shift, repeat, t),
         \A d \in store' : d.stamp <= t /\ \A e \in walk.start : SameButStamp(d, e),
         Open \cap Ids(store') \subseteq Ids(store),
         Moves(Wanted, {d \in store' : walk.asker # Nobody => walk.asker \in d.users}, shift, repeat)
  PROVE  PagesInv'
<1> DEFINE shifts == IF shift THEN walk.shifts + 1 ELSE walk.shifts
           repeats == IF repeat THEN walk.repeats + 1 ELSE walk.repeats
           V == {d \in store' : walk.asker # Nobody => walk.asker \in d.users}
<1>1. DataOK /\ ShownOK
  BY DEF PagesInv
<1>2. walk.shifts \in Nat /\ walk.repeats \in Nat
  BY <1>1, FiniteCounts
<1>3. shifts = walk.shifts + (IF shift THEN 1 ELSE 0) /\ repeats = walk.repeats + (IF repeat THEN 1 ELSE 0)
      /\ shifts \in Nat /\ repeats \in Nat /\ walk.shifts <= shifts
  BY <1>2
<1>4. walk' = [walk EXCEPT !.shifts = shifts, !.repeats = repeats]
  BY DEF Writes
<1> HIDE DEF shifts, repeats
<1>5. /\ SameWalk /\ walk'.pc = walk.pc /\ walk'.seen = walk.seen /\ walk'.page = walk.page
      /\ walk'.shifts = shifts /\ walk'.repeats = repeats
      /\ walk'.tied = walk.tied /\ walk'.total = walk.total
  BY <1>4 DEF SameWalk, QueriesInv, WalkOK
<1>6. /\ found' = found /\ shown' = shown /\ writes' = writes + 1 /\ clock' = t
      /\ walk.pc \notin {"done", "failed"} /\ writes \in Nat
  BY DEF Writes, Walking, QueriesInv, StoreOK
<1>7. DataOK'
  <2>1. Cardinality(walk.start) \in Nat /\ walk'.start = walk.start /\ walk'.asker = walk.asker
    BY <1>5 DEF QueriesInv, StoreOK, SameWalk
  <2>2. \A i \in DOMAIN found : found[i].id <= Cardinality(walk.start) + (writes + 1)
    <3> SUFFICES ASSUME NEW i \in DOMAIN found
                 PROVE  found[i].id <= Cardinality(walk.start) + (writes + 1)
      OBVIOUS
    <3>1. found[i] \in Docs
      BY DEF QueriesInv, PageOK
    <3>2. found[i].id \in Nat /\ found[i].id <= Cardinality(walk.start) + writes
      BY <1>1, <3>1, DocFields DEF DataOK
    <3> QED
      BY <1>6, <2>1, <3>2
  <2>3. \A i \in DOMAIN walk.seen : walk.seen[i] <= Cardinality(walk.start) + (writes + 1)
    <3> SUFFICES ASSUME NEW i \in DOMAIN walk.seen
                 PROVE  walk.seen[i] <= Cardinality(walk.start) + (writes + 1)
      OBVIOUS
    <3>1. walk.seen[i] \in Nat /\ walk.seen[i] <= Cardinality(walk.start) + writes
      BY <1>1 DEF QueriesInv, WalkOK, DataOK
    <3> QED
      BY <1>6, <2>1, <3>1
  <2>4. /\ walk.start \in SUBSET Docs
        /\ \A d, e \in walk.start : d.id = e.id => d = e
        /\ \A e \in walk.start : e.id <= Cardinality(walk.start)
        /\ \A i \in DOMAIN found :
             /\ walk.asker # Nobody => walk.asker \in found[i].users
             /\ \A e \in walk.start : SameButStamp(found[i], e)
        /\ \A i, j \in DOMAIN found : found[i].id = found[j].id => i = j
    BY <1>1 DEF DataOK
  <2> QED
    BY <1>5, <1>6, <2>1, <2>2, <2>3, <2>4 DEF DataOK, SameButStamp
<1>8. ShownOK'
  <2>1. walk'.asker = walk.asker /\ walk'.kind = walk.kind
    BY <1>5 DEF SameWalk
  <2> QED
    BY <1>1, <1>5, <1>6, <2>1 DEF ShownOK, ShownWell, MayBeSeen
<1> SUFFICES ASSUME ~walk.tied
             PROVE  FewOverlooked' /\ FewBeyond' /\ FewLeft' /\ FewAgain'
  BY <1>5, <1>7, <1>8 DEF PagesInv
<1>9. FewOverlooked /\ FewBeyond /\ FewLeft /\ FewAgain
  BY DEF PagesInv
<1>10. /\ Direction' = Direction /\ Due' = Due /\ Seen' = Seen /\ Page' = Page /\ Past' = Past
       /\ Again' = Again /\ (HasPage' <=> HasPage) /\ (LastPage' <=> LastPage)
  BY <1>5, <1>6, SameWalkSame
     DEF Seen, Page, HasPage, Past, Skip, Again, LastPage, SameWalk
<1>11. Had' = Had /\ Open' = Open
  BY <1>10 DEF Had, Open
<1>12. Wanted' = V
  BY <1>5 DEF Wanted, SameWalk
<1>13. Moves(Wanted, V, shift, repeat)
  OBVIOUS
<1> HIDE DEF V
<1>14. /\ Overlooked' = Early(Direction, V, Open, Past)
       /\ Beyond' = Late(Direction, V, Open, walk.total)
       /\ Returning' = Late(Direction, V, Had, Past)
  BY <1>5, <1>10, <1>11, <1>12 DEF Overlooked, Beyond, Returning
<1>15. /\ Widens(Overlooked, Overlooked', shift)
       /\ Widens(Overlooked \cup Beyond, Overlooked' \cup Beyond', shift)
       /\ Widens(Returning, Returning', repeat)
  BY <1>13, <1>14 DEF Moves, Overlooked, Beyond, Returning
<1>16. FewOverlooked'
  <2>1. /\ Cardinality(Overlooked) \in Nat /\ Cardinality(Overlooked') \in Nat
        /\ Cardinality(Overlooked') <= Cardinality(Overlooked) + (IF shift THEN 1 ELSE 0)
    BY <1>1, <1>15, FiniteCounts, WidensByOne
  <2>2. Cardinality(Overlooked) <= walk.shifts
    BY <1>6, <1>9 DEF FewOverlooked
  <2>3. Cardinality(Overlooked') <= walk'.shifts
    BY <1>2, <1>3, <1>5, <2>1, <2>2
  <2> QED
    BY <2>3 DEF FewOverlooked
<1>17. FewBeyond'
  <2> SUFFICES ASSUME walk.pc = "find"
               PROVE  Cardinality(Overlooked' \cup Beyond') <= walk'.shifts
    BY <1>5 DEF FewBeyond
  <2> DEFINE X == Overlooked \cup Beyond
             Y == Overlooked' \cup Beyond'
  <2>1. IsFiniteSet(X) /\ Widens(X, Y, shift) /\ Cardinality(X) <= walk.shifts
    BY <1>1, <1>9, <1>15, FiniteCounts DEF FewBeyond
  <2> HIDE DEF X, Y
  <2>2. /\ Cardinality(X) \in Nat /\ Cardinality(Y) \in Nat
        /\ Cardinality(Y) <= Cardinality(X) + (IF shift THEN 1 ELSE 0)
    BY <2>1, WidensByOne
  <2>3. Cardinality(Y) <= walk'.shifts
    BY <1>2, <1>3, <1>5, <2>1, <2>2
  <2> QED
    BY <2>3 DEF Y
<1>18. FewLeft'
  <2> SUFFICES ASSUME HasPage, LastPage
               PROVE  Cardinality(Left') <= walk'.shifts
    BY <1>5, <1>6, <1>10 DEF FewLeft
  <2>1. Left' \subseteq Left
    BY <1>11 DEF Left
  <2>2. Cardinality(Left') <= Cardinality(Left) /\ Cardinality(Left') \in Nat /\ Cardinality(Left) \in Nat
    BY <1>1, <2>1, FiniteCounts, NoMore
  <2>3. Cardinality(Left) <= walk.shifts
    BY <1>9 DEF FewLeft
  <2> QED
    BY <1>2, <1>3, <1>5, <2>2, <2>3
<1>19. FewAgain'
  <2>1. /\ Cardinality(Returning) \in Nat /\ Cardinality(Returning') \in Nat
        /\ Cardinality(Returning') <= Cardinality(Returning) + (IF repeat THEN 1 ELSE 0)
    BY <1>1, <1>15, FiniteCounts, WidensByOne
  <2>2. Again + Cardinality(Page \cap Seen) + Cardinality(Returning) <= walk.repeats
    BY <1>6, <1>9 DEF FewAgain
  <2>3. Again \in Int /\ Cardinality(Page \cap Seen) \in Nat
    <3>1. Page \cap Seen \subseteq Seen
      OBVIOUS
    <3> QED
      BY <1>1, <3>1, FiniteCounts, NoMore
  <2>4. Again + Cardinality(Page \cap Seen) + Cardinality(Returning') <= repeats
    BY <1>2, <1>3, <2>1, <2>2, <2>3
  <2> QED
    BY <1>5, <1>6, <1>10, <2>4 DEF FewAgain
<1> QED
  BY <1>16, <1>17, <1>18, <1>19

\* Nothing is moved when what is wanted stays the same.
LEMMA NothingMoves ==
  ASSUME NEW W, NEW shift \in BOOLEAN, NEW repeat \in BOOLEAN
  PROVE  Moves(W, W, shift, repeat)
<1>1. \A X : Widens(X, X, shift) /\ Widens(X, X, repeat)
  BY DEF Widens
<1> QED
  BY <1>1 DEF Moves

\* The ids that are due, or that the walk has had, were given before.
LEMMA IdsAreOld ==
  ASSUME QueriesInv, DataOK
  PROVE  \A i \in Open \cup Had : i <= Cardinality(walk.start) + writes
<1>1. Cardinality(walk.start) \in Nat /\ writes \in Nat
  BY DEF QueriesInv, StoreOK
<1>2. ASSUME NEW i \in Due
      PROVE  i <= Cardinality(walk.start) + writes
  <2>1. PICK e \in walk.start : e.id = i
    BY DEF Due
  <2>2. i \in Nat /\ i <= Cardinality(walk.start)
    BY <2>1 DEF DataOK, Due
  <2> QED
    BY <1>1, <2>2
<1>3. \A i \in Seen : i <= Cardinality(walk.start) + writes
  BY DEF Seen, Range, DataOK
<1>4. \A i \in Page : i <= Cardinality(walk.start) + writes
  BY DEF Page, Ids, Range, DataOK
<1> QED
  BY <1>2, <1>3, <1>4 DEF Open, Had

\* The next updatedAt is not before that of any document.
LEMMA StampsGrow ==
  ASSUME QueriesInv, DataOK, NEW t \in Stamps
  PROVE  /\ t \in Nat /\ clock \in Nat /\ clock <= t
         /\ \A d \in store : d \in Docs /\ d.stamp \in Nat /\ d.stamp <= clock /\ d.stamp <= t
<1>1. clock \in Nat /\ t \in Nat /\ clock <= t
  BY DEF QueriesInv, StoreOK, Stamps
<1>2. ASSUME NEW d \in store
      PROVE  d \in Docs /\ d.stamp \in Nat /\ d.stamp <= clock /\ d.stamp <= t
  <2>1. d \in Docs /\ d.stamp <= clock
    BY DEF QueriesInv, StoreOK, DataOK
  <2>2. d.stamp \in Nat
    BY <2>1, DocFields
  <2> QED
    BY <1>1, <2>1, <2>2
<1> QED
  BY <1>1, <1>2

\* An insert goes behind all others, unless the last change comes first.
LEMMA InsertPages ==
  ASSUME QueriesInv, PagesInv, InsertOther
  PROVE  PagesInv'
<1>1. PICK t \in Stamps, new \in Docs :
        /\ new.id = Cardinality(walk.start) + writes + 1 /\ new.stamp = t
        /\ store' = store \cup {new}
        /\ Writes(walk.desc, walk.desc, t)
  BY Inserted
<1>2. DataOK /\ walk.desc \in BOOLEAN
  BY DEF PagesInv, QueriesInv, WalkOK
<1>3. /\ t \in Nat
      /\ \A d \in store : d \in Docs /\ d.stamp \in Nat /\ d.stamp <= t
  BY <1>2, StampsGrow
<1>4. Cardinality(walk.start) \in Nat /\ writes \in Nat /\ new.id \in Nat
  BY <1>1 DEF QueriesInv, StoreOK
<1>5. \A d \in store : d.id \in Nat /\ d.id < new.id
  <2> SUFFICES ASSUME NEW d \in store
               PROVE  d.id \in Nat /\ d.id < new.id
    OBVIOUS
  <2>1. d.id \in Nat /\ d.id <= Cardinality(walk.start) + writes
    BY <1>3, DocFields DEF QueriesInv, StoreOK
  <2> QED
    BY <1>1, <1>4, <2>1
<1>6. new.id \notin Open /\ new.id \notin Had
  <2>1. ~(new.id <= Cardinality(walk.start) + writes)
    BY <1>1, <1>4
  <2> QED
    BY <1>2, <2>1, IdsAreOld
<1>7. \A d \in store' : d.stamp <= t /\ \A e \in walk.start : SameButStamp(d, e)
  <2>1. ASSUME NEW e \in walk.start
        PROVE  SameButStamp(new, e)
    <3>1. e \in Docs /\ e.id <= Cardinality(walk.start)
      BY <1>2 DEF DataOK
    <3>2. e.id \in Nat
      BY <3>1, DocFields
    <3>3. new.id # e.id
      BY <1>1, <1>4, <3>1, <3>2
    <3> QED
      BY <3>3 DEF SameButStamp
  <2>2. \A d \in store, e \in walk.start : SameButStamp(d, e)
    BY <1>2 DEF DataOK
  <2>3. new.stamp <= t
    BY <1>1, <1>3
  <2> QED
    BY <1>1, <1>3, <2>1, <2>2, <2>3
<1>8. Open \cap Ids(store') \subseteq Ids(store)
  BY <1>1, <1>6 DEF Ids
<1> DEFINE V == {d \in store' : walk.asker # Nobody => walk.asker \in d.users}
<1>9. Moves(Wanted, V, walk.desc, walk.desc)
  <2>1. CASE ~(walk.asker # Nobody => walk.asker \in new.users)
    <3>1. V = Wanted
      BY <1>1, <2>1 DEF Wanted
    <3> QED
      BY <1>2, <3>1, NothingMoves
  <2>2. CASE walk.asker # Nobody => walk.asker \in new.users
    <3>1. V = Wanted \cup {new}
      BY <1>1, <2>2 DEF Wanted
    <3>2. /\ Direction \in Directions /\ WithIds(Wanted) /\ Past \in Nat /\ walk.total \in Nat
          /\ Wanted \subseteq store
      BY <1>2, FiniteCounts DEF Wanted
    <3>3. \A x \in Wanted : x.id # new.id
      BY <1>4, <1>5, <3>2
    <3>4. ~walk.desc => \A x \in Wanted : ~Precedes(Direction, new, x)
      <4> SUFFICES ASSUME ~walk.desc, NEW x \in Wanted
                   PROVE  ~Precedes(Direction, new, x)
        OBVIOUS
      <4>1. x.id \in Nat /\ x.id < new.id /\ x.stamp \in Nat /\ x.stamp <= t /\ new.stamp = t
        BY <1>1, <1>3, <1>5, <3>2
      <4>2. ~(new.id < x.id) /\ ~(new.stamp < x.stamp)
        BY <1>3, <1>4, <4>1
      <4>3. Direction # "last"
        BY DEF Direction
      <4> QED
        BY <4>2, <4>3 DEF Precedes
    <3> HIDE DEF V
    <3>5. /\ Early(Direction, V, Open, Past) \subseteq Early(Direction, Wanted, Open, Past)
          /\ \E a : Late(Direction, V, Open, walk.total)
                      \subseteq Late(Direction, Wanted, Open, walk.total) \cup {a}
          /\ ~walk.desc => Late(Direction, V, Open, walk.total)
                             \subseteq Late(Direction, Wanted, Open, walk.total)
      BY <1>6, <3>1, <3>2, <3>3, <3>4, AfterInsertion
    <3>6. /\ \E a : Late(Direction, V, Had, Past) \subseteq Late(Direction, Wanted, Had, Past) \cup {a}
          /\ ~walk.desc => Late(Direction, V, Had, Past) \subseteq Late(Direction, Wanted, Had, Past)
      BY <1>6, <3>1, <3>2, <3>3, <3>4, AfterInsertion
    <3>7. Widens(Early(Direction, Wanted, Open, Past), Early(Direction, V, Open, Past), walk.desc)
      BY <3>5 DEF Widens
    <3>8. Widens(Early(Direction, Wanted, Open, Past) \cup Late(Direction, Wanted, Open, walk.total),
                Early(Direction, V, Open, Past) \cup Late(Direction, V, Open, walk.total), walk.desc)
      <4>1. PICK a : Late(Direction, V, Open, walk.total)
                       \subseteq Late(Direction, Wanted, Open, walk.total) \cup {a}
        BY <3>5
      <4>2. Early(Direction, V, Open, Past) \cup Late(Direction, V, Open, walk.total)
              \subseteq (Early(Direction, Wanted, Open, Past) \cup Late(Direction, Wanted, Open, walk.total))
                          \cup {a}
        BY <3>5, <4>1
      <4>3. ~walk.desc => Early(Direction, V, Open, Past) \cup Late(Direction, V, Open, walk.total)
              \subseteq Early(Direction, Wanted, Open, Past) \cup Late(Direction, Wanted, Open, walk.total)
        BY <3>5
      <4> QED
        BY <4>2, <4>3 DEF Widens
    <3>9. Widens(Late(Direction, Wanted, Had, Past), Late(Direction, V, Had, Past), walk.desc)
      BY <3>6 DEF Widens
    <3> QED
      BY <3>7, <3>8, <3>9 DEF Moves
  <2> QED
    BY <2>1, <2>2
<1> QED
  BY <1>1, <1>2, <1>3, <1>7, <1>8, <1>9, WritesPages

\* A change of updatedAt changes nothing else.
LEMMA Restamped ==
  ASSUME NEW d \in Docs, NEW t \in Nat
  PROVE  LET e == [d EXCEPT !.stamp = t]
         IN  /\ e \in Docs /\ e.id = d.id /\ e.stamp = t
             /\ e.class = d.class /\ e.sub = d.sub /\ e.users = d.users
             /\ d.stamp = t => e = d
<1>1. PICK i0 \in Nat, t0 \in Nat, g \in Given : d = Doc(i0, t0, g.class, g.sub, g.users)
  BY DEF Docs
<1>2. d = [id |-> i0, stamp |-> t0, class |-> g.class, sub |-> g.sub, users |-> g.users]
  BY <1>1 DEF Doc
<1>3. [d EXCEPT !.stamp = t] \in Docs /\ [d EXCEPT !.stamp = t].id = d.id
  BY DocFields
<1>4. [d EXCEPT !.stamp = t] = [id |-> i0, stamp |-> t, class |-> g.class, sub |-> g.sub,
                                users |-> g.users]
  BY <1>2
<1> DEFINE e == [d EXCEPT !.stamp = t]
<1> HIDE DEF e
<1>5. e = [id |-> i0, stamp |-> t, class |-> g.class, sub |-> g.sub, users |-> g.users]
  BY <1>4 DEF e
<1>6. /\ e.stamp = t /\ e.class = d.class /\ e.sub = d.sub /\ e.users = d.users
      /\ d.stamp = t => e = d
  BY <1>2, <1>5
<1> QED
  BY <1>3, <1>6 DEF e

\* A document that moves either way moves others by one.
LEMMA AfterStamp ==
  ASSUME NEW m \in Directions, NEW W, WithIds(W), NEW d \in W, NEW e \in Docs, e.id = d.id,
         e = d \/ Precedes(m, d, e) \/ Precedes(m, e, d), NEW C, NEW H, NEW n \in Nat, NEW t \in Nat
  PROVE  Shifts(m, W, (W \ {d}) \cup {e}, C, H, n, t)
BY AfterMove, AfterLift

\* A change moves a document to the end of the order, or to its beginning.
LEMMA UpdatePages ==
  ASSUME QueriesInv, PagesInv, UpdateOther
  PROVE  PagesInv'
<1>1. PICK d \in store, t \in Stamps :
        /\ store' = (store \ {d}) \cup {[d EXCEPT !.stamp = t]}
        /\ Writes(Sorted, Sorted, t)
  BY DEF UpdateOther
<1>2. DataOK /\ Sorted \in BOOLEAN
  BY DEF PagesInv, Sorted
<1>3. /\ t \in Nat
      /\ \A x \in store : x \in Docs /\ x.stamp \in Nat /\ x.stamp <= t
  BY <1>2, StampsGrow
<1> DEFINE new == [d EXCEPT !.stamp = t]
<1>4. /\ new \in Docs /\ new.id = d.id /\ new.stamp = t
      /\ new.class = d.class /\ new.sub = d.sub /\ new.users = d.users
      /\ d.stamp = t => new = d
  BY <1>3, Restamped
<1>5. store' = (store \ {d}) \cup {new}
  BY <1>1
<1> HIDE DEF new
<1>6. \A x \in store' : x.stamp <= t /\ \A e \in walk.start : SameButStamp(x, e)
  <2>1. \A x \in store, e \in walk.start : SameButStamp(x, e)
    BY <1>2 DEF DataOK
  <2>2. \A e \in walk.start : SameButStamp(new, e)
    BY <1>4, <2>1 DEF SameButStamp
  <2>3. new.stamp <= t
    BY <1>3, <1>4
  <2> QED
    BY <1>3, <1>5, <2>1, <2>2, <2>3
<1>7. Open \cap Ids(store') \subseteq Ids(store)
  BY <1>4, <1>5 DEF Ids
<1> DEFINE V == {x \in store' : walk.asker # Nobody => walk.asker \in x.users}
<1>8. Moves(Wanted, V, Sorted, Sorted)
  <2>1. CASE d \notin Wanted
    <3>1. V = Wanted
      BY <1>4, <1>5, <2>1 DEF Wanted
    <3> QED
      BY <1>2, <3>1, NothingMoves
  <2>2. CASE d \in Wanted
    <3>1. V = (Wanted \ {d}) \cup {new}
      BY <1>4, <1>5, <2>2 DEF Wanted
    <3>2. /\ Direction \in Directions /\ WithIds(Wanted) /\ Past \in Nat /\ walk.total \in Nat
      BY <1>2, FiniteCounts
    <3> HIDE DEF V
    <3>3. CASE ~Sorted
      <4>1. Direction = "inserted"
        BY <3>3 DEF Direction
      <4>2. /\ Early(Direction, V, Open, Past) \subseteq Early(Direction, Wanted, Open, Past)
            /\ Late(Direction, V, Had, Past) \subseteq Late(Direction, Wanted, Had, Past)
            /\ Late(Direction, V, Open, walk.total) \subseteq Late(Direction, Wanted, Open, walk.total)
        BY <1>4, <2>2, <3>1, <3>2, <4>1, AfterSame
      <4> QED
        BY <3>3, <4>2 DEF Moves, Widens
    <3>4. CASE Sorted
      <4>1. new = d \/ Precedes(Direction, d, new) \/ Precedes(Direction, new, d)
        <5>1. d.stamp \in Nat /\ d.stamp <= t /\ new.stamp = t
          BY <1>3, <1>4
        <5>2. CASE walk.desc
          <6>1. Direction = "last"
            BY <3>4, <5>2 DEF Direction
          <6> QED
            BY <1>3, <1>4, <5>1, <6>1 DEF Precedes
        <5>3. CASE ~walk.desc
          <6>1. Direction = "first"
            BY <3>4, <5>3 DEF Direction
          <6> QED
            BY <1>3, <1>4, <5>1, <6>1 DEF Precedes
        <5> QED
          BY <5>2, <5>3
      <4>2. new \in Docs /\ new.id = d.id
        BY <1>4
      <4>3. Shifts(Direction, Wanted, V, Open, Had, Past, walk.total)
        BY <2>2, <3>1, <3>2, <4>1, <4>2, AfterStamp
      <4> QED
        BY <3>4, <4>3 DEF Shifts, Moves, Widens
    <3> QED
      BY <3>3, <3>4
  <2> QED
    BY <2>1, <2>2
<1> QED
  BY <1>1, <1>2, <1>3, <1>6, <1>7, <1>8, WritesPages

\* A deletion moves those behind it up.
LEMMA DeletePages ==
  ASSUME QueriesInv, PagesInv, DeleteOther
  PROVE  PagesInv'
<1>1. PICK d \in store : store' = store \ {d} /\ Writes(TRUE, FALSE, clock)
  BY DEF DeleteOther
<1>2. DataOK /\ clock \in Nat
  BY DEF PagesInv, QueriesInv, StoreOK
<1>3. \A x \in store' : x.stamp <= clock /\ \A e \in walk.start : SameButStamp(x, e)
  BY <1>1, <1>2 DEF DataOK
<1>4. Open \cap Ids(store') \subseteq Ids(store)
  BY <1>1 DEF Ids
<1> DEFINE V == {x \in store' : walk.asker # Nobody => walk.asker \in x.users}
<1>5. Moves(Wanted, V, TRUE, FALSE)
  <2>1. CASE d \notin Wanted
    <3>1. V = Wanted
      BY <1>1, <2>1 DEF Wanted
    <3> QED
      BY <3>1, NothingMoves
  <2>2. CASE d \in Wanted
    <3>1. V = Wanted \ {d}
      BY <1>1 DEF Wanted
    <3>2. /\ Direction \in Directions /\ WithIds(Wanted) /\ Past \in Nat /\ walk.total \in Nat
      BY <1>2, FiniteCounts
    <3> HIDE DEF V
    <3>3. PICK a : Early(Direction, V, Open, Past) \subseteq Early(Direction, Wanted, Open, Past) \cup {a}
      BY <2>2, <3>1, <3>2, AfterDelete
    <3>4. /\ Late(Direction, V, Open, walk.total) \subseteq Late(Direction, Wanted, Open, walk.total)
          /\ Late(Direction, V, Had, Past) \subseteq Late(Direction, Wanted, Had, Past)
      BY <2>2, <3>1, <3>2, AfterDelete
    <3>5. Early(Direction, V, Open, Past) \cup Late(Direction, V, Open, walk.total)
            \subseteq (Early(Direction, Wanted, Open, Past) \cup Late(Direction, Wanted, Open, walk.total))
                        \cup {a}
      BY <3>3, <3>4
    <3> QED
      BY <3>3, <3>4, <3>5 DEF Moves, Widens
  <2> QED
    BY <2>1, <2>2
<1> QED
  BY <1>1, <1>2, <1>3, <1>4, <1>5, WritesPages

\* What is counted depends on the walk, the documents and the page only.
LEMMA SameCounts ==
  ASSUME UNCHANGED <<store, walk, found>>
  PROVE  /\ FewOverlooked' = FewOverlooked /\ FewBeyond' = FewBeyond
         /\ FewLeft' = FewLeft /\ FewAgain' = FewAgain
<1>1. /\ Due' = Due /\ Page' = Page /\ Seen' = Seen /\ Past' = Past /\ Wanted' = Wanted
      /\ Direction' = Direction /\ HasPage' = HasPage /\ Suits' = Suits /\ LastPage' = LastPage
  BY DEF Due, MayBeSeen, Page, HasPage, Seen, Past, Skip, Wanted, Direction, Sorted, Suits, LastPage
<1>2. Had' = Had /\ Open' = Open /\ Again' = Again
  BY <1>1 DEF Had, Open, Again
<1>3. /\ Overlooked' = Overlooked /\ Beyond' = Beyond /\ Returning' = Returning /\ Left' = Left
  BY <1>1, <1>2 DEF Overlooked, Beyond, Returning, Left
<1> QED
  BY <1>1, <1>2, <1>3 DEF FewOverlooked, FewBeyond, FewLeft, FewAgain

\* A class that goes moves nothing.
LEMMA ClassPages ==
  ASSUME QueriesInv, PagesInv, DeleteClass
  PROVE  PagesInv'
<1>1. writes' = writes + 1 /\ UNCHANGED <<store, clock, walk, found, shown>>
      /\ writes \in Nat /\ Cardinality(walk.start) \in Nat
  BY DEF DeleteClass, QueriesInv, StoreOK
<1>2. DataOK /\ ShownOK
  BY DEF PagesInv
<1>3. DataOK'
  <2>1. \A i \in DOMAIN found : found[i].id <= Cardinality(walk.start) + (writes + 1)
    <3> SUFFICES ASSUME NEW i \in DOMAIN found
                 PROVE  found[i].id <= Cardinality(walk.start) + (writes + 1)
      OBVIOUS
    <3>1. found[i] \in Docs
      BY DEF QueriesInv, PageOK
    <3>2. found[i].id \in Nat /\ found[i].id <= Cardinality(walk.start) + writes
      BY <1>2, <3>1, DocFields DEF DataOK
    <3> QED
      BY <1>1, <3>2
  <2>2. \A i \in DOMAIN walk.seen : walk.seen[i] <= Cardinality(walk.start) + (writes + 1)
    <3> SUFFICES ASSUME NEW i \in DOMAIN walk.seen
                 PROVE  walk.seen[i] <= Cardinality(walk.start) + (writes + 1)
      OBVIOUS
    <3>1. walk.seen[i] \in Nat /\ walk.seen[i] <= Cardinality(walk.start) + writes
      BY <1>2 DEF QueriesInv, WalkOK, DataOK
    <3> QED
      BY <1>1, <3>1
  <2> QED
    BY <1>1, <1>2, <2>1, <2>2 DEF DataOK, SameButStamp
<1>4. ShownOK'
  BY <1>1, <1>2 DEF ShownOK, ShownWell, MayBeSeen
<1> QED
  BY <1>1, <1>3, <1>4, SameCounts DEF PagesInv

\* No step of a walk or of another request breaks it.
LEMMA PagesNext == QueriesInv /\ PagesInv /\ [QueriesNext]_queriesVars => PagesInv'
<1> SUFFICES ASSUME QueriesInv, PagesInv, [QueriesNext]_queriesVars
             PROVE  PagesInv'
  OBVIOUS
<1>1. CASE \/ QueryConfigurations \/ QueryTemplates \/ QueryScenes \/ QuerySceneRelations
           \/ QueryMessages
  BY <1>1, AsksPages DEF QueryConfigurations, QueryTemplates, QueryScenes, QuerySceneRelations,
                         QueryMessages
<1>2. CASE queryConfigurations \/ queryTemplates \/ queryScenePage \/ querySceneRelationPage
  <2>1. PICK kind \in {"class", "template", "scene", "relation"} : CountAndFind(kind)
    BY <1>2 DEF queryConfigurations, queryTemplates, queryScenePage, querySceneRelationPage
  <2> QED
    BY <2>1, CountPages, FindPages DEF CountAndFind
<1>3. CASE queryMessages
  BY <1>3, CountPages, FindPages, LookUpPages DEF queryMessages
<1>4. CASE \/ ConfigurationsReply \/ TemplatesReply \/ ScenesReply \/ SceneRelationsReply
           \/ MessagesReply
  <2>1. CASE TemplatesReply
    <3>1. walk.kind = "template"
      BY <2>1 DEF TemplatesReply, Replies
    <3> QED
      BY <2>1, <3>1, RepliesPages DEF TemplatesReply
  <2>2. CASE ConfigurationsReply \/ ScenesReply \/ SceneRelationsReply \/ MessagesReply
    BY <2>2, RepliesPages DEF ConfigurationsReply, ScenesReply, SceneRelationsReply, MessagesReply
  <2> QED
    BY <1>4, <2>1, <2>2
<1>5. CASE QueryFails
  BY <1>5, FailsPages
<1>6. CASE InsertOther \/ UpdateOther \/ DeleteOther \/ DeleteClass
  BY <1>6, InsertPages, UpdatePages, DeletePages, ClassPages
<1>7. CASE UNCHANGED queriesVars
  <2>1. UNCHANGED <<store, clock, writes, known, walk, found, shown>>
    BY <1>7 DEF queriesVars
  <2>2. DataOK' /\ ShownOK'
    BY <2>1 DEF PagesInv, DataOK, SameButStamp, ShownOK, ShownWell, MayBeSeen
  <2> QED
    BY <2>1, <2>2, SameCounts DEF PagesInv
<1> QED
  BY <1>1, <1>2, <1>3, <1>4, <1>5, <1>6, <1>7 DEF QueriesNext

\* At the end of a walk, what is left is what was missed.
LEMMA PagesInvAgree == QueriesInv /\ PagesInv => PagesAgree
<1> SUFFICES ASSUME QueriesInv, PagesInv, Done
             PROVE  FewMissed /\ FewTwice
  BY DEF PagesAgree
<1>1. DataOK /\ FewLeft /\ FewAgain /\ walk.pc = "done"
  BY DEF PagesInv, Done
<1>2. FewTwice
  BY <1>1 DEF FewAgain, FewTwice, Again, Seen
<1>3. ASSUME Suits
      PROVE  Cardinality(Missed) <= walk.shifts
  <2>1. Cardinality(Left) <= walk.shifts
    BY <1>1, <1>3 DEF FewLeft
  <2>2. \A d \in Missed : d \in walk.start /\ d.id \in Left
    <3> SUFFICES ASSUME NEW d \in Missed
                 PROVE  d \in walk.start /\ d.id \in Left
      OBVIOUS
    <3>1. /\ d \in walk.start /\ MayBeSeen(d) /\ (walk.asker # Nobody => walk.asker \in d.users)
          /\ d.id \in Ids(store) /\ d.id \notin Seen
      BY DEF Missed, Seen
    <3>2. d \in Docs
      BY <1>1, <3>1 DEF DataOK
    <3>3. d.id \in Nat
      BY <3>2, DocFields
    <3>4. Page = {}
      BY <1>1 DEF Page, HasPage
    <3> QED
      BY <3>1, <3>3, <3>4 DEF Left, Open, Due, Had
  <2>3. \A d, e \in Missed : d.id = e.id => d = e
    BY <1>1, <2>2 DEF DataOK
  <2> DEFINE g == [d \in Missed |-> d.id]
  <2>4. g \in Injection(Missed, Left)
    BY <2>2, <2>3 DEF Injection, IsInjective
  <2>5. IsFiniteSet(Left) /\ walk.shifts \in Nat
    BY <1>1, FiniteCounts
  <2>6. IsFiniteSet(Missed) /\ Cardinality(Missed) <= Cardinality(Left)
    BY <2>4, <2>5, FS_Injection
  <2>7. Cardinality(Missed) \in Nat /\ Cardinality(Left) \in Nat
    BY <2>5, <2>6, FS_CardinalityType
  <2> QED
    BY <2>1, <2>5, <2>6, <2>7
<1> QED
  BY <1>2, <1>3 DEF FewMissed

\* A walk through any query, of any pages, in either order and whoever it is for,
\* misses no more of what is there all the time and repeats no more than others
\* deleted, changed or inserted meanwhile (configuration.go:1031-1054,
\* messages.go:1667-1690).
THEOREM PagesAlwaysAgree == QueriesSpec => []PagesAgree
<1>1. QueriesInit => QueriesInv /\ PagesInv
  BY QueriesInitInv, PagesInit
<1>2. QueriesInv /\ PagesInv /\ [QueriesNext]_queriesVars => (QueriesInv /\ PagesInv)'
  BY QueriesNextInv, PagesNext
<1> QED
  BY <1>1, <1>2, PagesInvAgree, PTL DEF QueriesSpec

-----------------------------------------------------------------------------
(* Linked messages: the removal *)

\* What Kept is made of: f[i] is what is kept of the first i elements.
KeptUpTo(f, l, W) ==
  /\ f[0] = <<>>
  /\ \A i \in 1 .. Len(l) : f[i] = IF l[i] \in W THEN Append(f[i - 1], l[i]) ELSE f[i - 1]

\* Kept takes the elements one after the other.
LEMMA KeptByOne ==
  ASSUME NEW V, NEW l \in Seq(V), NEW W
  PROVE  \E f \in [0 .. Len(l) -> Seq(V)] : KeptUpTo(f, l, W) /\ Kept(l, W) = f[Len(l)]
<1> DEFINE n == Len(l)
           T == Seq(V)
           Step(t, i) == IF l[i] \in W THEN Append(t, l[i]) ELSE t
           Body(f) == [i \in 0 .. n |-> IF i = 0 THEN <<>> ELSE Step(f[i - 1], i)]
           g == [i \in 1 .. n |-> [t \in T |-> Step(t, i)]]
           c == CHOOSE f : f = Body(f)
<1>1. n \in Nat /\ \A i \in 1 .. n : l[i] \in V
  BY LenProperties
<1>2. <<>> \in T
  BY EmptySeq
<1>3. \A t \in T, i \in 1 .. n : Step(t, i) \in T
  BY <1>1, AppendProperties
<1>4. g \in [1 .. n -> [T -> T]]
  <2> HIDE DEF Step, T
  <2> QED
    BY <1>3
<1>5. \A t \in T, i \in 1 .. n : g[i][t] = Step(t, i)
  OBVIOUS
<1>6. Kept(l, W) = c[n]
  BY DEF Kept
<1> HIDE DEF n, g, T, Step
<1>7. n \in Nat /\ <<>> \in T
  BY <1>1, <1>2
<1>8. PICK f \in [0 .. n -> T] : Iterates(f, n, <<>>, g)
  BY <1>4, <1>7, Iterated
<1>9. \A i \in 1 .. n : f[i] = Step(f[i - 1], i)
  <2>1. \A i \in 1 .. n : f[i - 1] \in T
    BY <1>1, <1>8
  <2> QED
    BY <1>5, <1>8, <2>1 DEF Iterates
<1>10. f = Body(f)
  <2>1. \A i \in 0 .. n : f[i] = IF i = 0 THEN <<>> ELSE Step(f[i - 1], i)
    BY <1>1, <1>8, <1>9 DEF Iterates
  <2> QED
    BY <1>8, <2>1
<1>11. c = Body(c)
  <2> HIDE DEF Body
  <2> QED
    BY <1>10
<1> HIDE DEF c
<1>12. c[0] = <<>> /\ \A i \in 1 .. n : c[i] = Step(c[i - 1], i)
  BY <1>1, <1>11
<1>13. c \in [0 .. n -> T]
  <2> DEFINE P == {i \in 0 .. n : c[i] \in T}
  <2>1. 0 \in P
    BY <1>1, <1>2, <1>12
  <2>2. ASSUME NEW i \in 1 .. n, i - 1 \in P
        PROVE  i \in P
    BY <1>1, <1>3, <1>12, <2>2
  <2> HIDE DEF P
  <2>3. 0 .. n \subseteq P
    BY <1>7, <2>1, <2>2, Throughout
  <2>4. \A i \in 0 .. n : c[i] \in T
    BY <2>3 DEF P
  <2> QED
    BY <1>11, <2>4
<1>14. KeptUpTo(c, l, W)
  BY <1>12 DEF KeptUpTo, n, Step
<1> QED
  BY <1>6, <1>13, <1>14 DEF n, T

\* What is kept is made of the elements that are in W, all of them, and without
\* doubles if there were none.
LEMMA KeptElements ==
  ASSUME NEW V, NEW l \in Seq(V), NEW W
  PROVE  /\ Kept(l, W) \in Seq(V)
         /\ Range(Kept(l, W)) = Range(l) \cap W
         /\ IsInjective(l) => IsInjective(Kept(l, W))
<1> DEFINE n == Len(l)
<1>1. PICK f \in [0 .. n -> Seq(V)] : KeptUpTo(f, l, W) /\ Kept(l, W) = f[n]
  BY KeptByOne
<1>2. n \in Nat /\ l \in [1 .. n -> V]
  BY LenProperties
<1> DEFINE Of(i) == /\ Range(f[i]) = {l[j] : j \in 1 .. i} \cap W
                    /\ IsInjective(l) => IsInjective(f[i])
           P == {i \in 0 .. n : Of(i)}
<1>3. 0 \in P
  <2>1. f[0] = <<>>
    BY <1>1 DEF KeptUpTo
  <2>2. Range(f[0]) = {} /\ IsInjective(f[0])
    BY <2>1 DEF Range, IsInjective
  <2>3. {l[j] : j \in 1 .. 0} = {}
    OBVIOUS
  <2> QED
    BY <1>2, <2>2, <2>3
<1>4. ASSUME NEW i \in 1 .. n, i - 1 \in P
      PROVE  i \in P
  <2> DEFINE t == f[i - 1]
  <2>1. i \in 0 .. n /\ i - 1 \in 0 .. n /\ t \in Seq(V) /\ l[i] \in V
    BY <1>1, <1>2
  <2>2. f[i] = IF l[i] \in W THEN Append(t, l[i]) ELSE t
    BY <1>1 DEF KeptUpTo
  <2>3. Range(t) = {l[j] : j \in 1 .. i - 1} \cap W /\ (IsInjective(l) => IsInjective(t))
    BY <1>4
  <2>4. {l[j] : j \in 1 .. i} = {l[j] : j \in 1 .. i - 1} \cup {l[i]}
    BY <2>1
  <2> HIDE DEF t
  <2>5. CASE l[i] \in W
    <3>1. /\ DOMAIN f[i] = 1 .. Len(t) + 1 /\ f[i][Len(t) + 1] = l[i]
          /\ \A j \in 1 .. Len(t) : f[i][j] = t[j]
          /\ DOMAIN t = 1 .. Len(t) /\ Len(t) \in Nat
      BY <2>1, <2>2, <2>5, AppendProperties
    <3>2. Range(f[i]) = Range(t) \cup {l[i]}
      BY <3>1 DEF Range
    <3>3. ASSUME IsInjective(l)
          PROVE  IsInjective(f[i])
      <4>1. \A j \in 1 .. i - 1 : l[j] # l[i]
        BY <1>2, <2>1, <3>3 DEF IsInjective
      <4>2. l[i] \notin Range(t)
        BY <2>3, <4>1
      <4>3. \A j \in 1 .. Len(t) : t[j] # l[i]
        BY <3>1, <4>2 DEF Range
      <4>4. IsInjective(t)
        BY <2>3, <3>3
      <4> QED
        BY <3>1, <4>3, <4>4 DEF IsInjective
    <3> QED
      BY <2>1, <2>3, <2>4, <2>5, <3>2, <3>3
  <2>6. CASE l[i] \notin W
    BY <2>1, <2>2, <2>3, <2>4, <2>6
  <2> QED
    BY <2>5, <2>6
<1> HIDE DEF P
<1>5. 0 .. n \subseteq P
  BY <1>2, <1>3, <1>4, Throughout
<1>6. Of(n)
  BY <1>2, <1>5 DEF P
<1>7. Range(l) = {l[j] : j \in 1 .. n}
  BY <1>2 DEF Range
<1> QED
  BY <1>1, <1>2, <1>6, <1>7

\* Everything is kept of a list that is all wanted.
LEMMA AllKept ==
  ASSUME NEW V, NEW l \in Seq(V), NEW W, Range(l) \subseteq W
  PROVE  Kept(l, W) = l
<1> DEFINE n == Len(l)
<1>1. PICK f \in [0 .. n -> Seq(V)] : KeptUpTo(f, l, W) /\ Kept(l, W) = f[n]
  BY KeptByOne
<1>2. n \in Nat /\ l \in [1 .. n -> V] /\ \A i \in 1 .. n : l[i] \in W
  BY LenProperties DEF Range
<1> DEFINE Of(i) == Len(f[i]) = i /\ \A j \in 1 .. i : f[i][j] = l[j]
           P == {i \in 0 .. n : Of(i)}
<1>3. 0 \in P
  BY <1>1, <1>2 DEF KeptUpTo
<1>4. ASSUME NEW i \in 1 .. n, i - 1 \in P
      PROVE  i \in P
  <2> DEFINE t == f[i - 1]
  <2>1. i \in 0 .. n /\ i - 1 \in 0 .. n /\ t \in Seq(V) /\ l[i] \in V
    BY <1>1, <1>2
  <2>2. f[i] = Append(t, l[i])
    BY <1>1, <1>2 DEF KeptUpTo
  <2>3. Len(t) = i - 1 /\ \A j \in 1 .. i - 1 : t[j] = l[j]
    BY <1>4
  <2> HIDE DEF t
  <2>4. Len(f[i]) = i /\ f[i][i] = l[i] /\ \A j \in 1 .. i - 1 : f[i][j] = t[j]
    BY <2>1, <2>2, <2>3, AppendProperties
  <2> QED
    BY <2>1, <2>3, <2>4
<1> HIDE DEF P
<1>5. 0 .. n \subseteq P
  BY <1>2, <1>3, <1>4, Throughout
<1>6. Of(n)
  BY <1>2, <1>5 DEF P
<1> QED
  BY <1>1, <1>2, <1>6

\* Taking out an element that is not kept changes nothing of what is.
LEMMA KeptWithout ==
  ASSUME NEW V, NEW l \in Seq(V), NEW W, NEW p \in 1 .. Len(l), l[p] \notin W,
         NEW m \in Seq(V), Len(m) = Len(l) - 1,
         \A j \in 1 .. Len(m) : m[j] = IF j < p THEN l[j] ELSE l[j + 1]
  PROVE  Kept(m, W) = Kept(l, W)
<1> DEFINE n == Len(l)
           k == Len(m)
<1>0. l \in Seq(V) /\ m \in Seq(V)
  OBVIOUS
<1>1. PICK f \in [0 .. n -> Seq(V)] : KeptUpTo(f, l, W) /\ Kept(l, W) = f[n]
  BY ONLY <1>0, KeptByOne
<1>2. PICK h \in [0 .. k -> Seq(V)] : KeptUpTo(h, m, W) /\ Kept(m, W) = h[k]
  BY ONLY <1>0, KeptByOne
<1>3. n \in Nat /\ k \in Nat /\ k = n - 1 /\ p \in 1 .. n
  BY LenProperties
<1> DEFINE P == {i \in 0 .. k : h[i] = IF i < p THEN f[i] ELSE f[i + 1]}
<1>4. 0 \in P
  BY <1>1, <1>2, <1>3 DEF KeptUpTo
<1>5. ASSUME NEW i \in 1 .. k, i - 1 \in P
      PROVE  i \in P
  <2>1. h[i] = IF m[i] \in W THEN Append(h[i - 1], m[i]) ELSE h[i - 1]
    BY <1>2 DEF KeptUpTo
  <2>2. \A j \in 1 .. n : f[j] = IF l[j] \in W THEN Append(f[j - 1], l[j]) ELSE f[j - 1]
    BY <1>1 DEF KeptUpTo
  <2>3. h[i - 1] = IF i - 1 < p THEN f[i - 1] ELSE f[i - 1 + 1]
    BY <1>5
  <2>4. i \in 1 .. n /\ i + 1 \in 1 .. n /\ i - 1 + 1 = i /\ i + 1 - 1 = i
    BY <1>3
  <2>5. CASE i < p
    <3>1. i - 1 < p
      BY <1>3, <2>5
    <3>2. m[i] = l[i]
      BY <2>5
    <3>3. h[i - 1] = f[i - 1]
      BY <2>3, <3>1
    <3>4. i < p /\ i \in 0 .. k /\ f[i] = IF l[i] \in W THEN Append(f[i - 1], l[i]) ELSE f[i - 1]
      BY <1>3, <2>2, <2>4, <2>5
    <3> QED
      BY <2>1, <3>2, <3>3, <3>4
  <2>6. CASE ~(i < p)
    <3>1. m[i] = l[i + 1]
      BY <2>6
    <3>2. h[i - 1] = f[i]
      <4>1. CASE i = p
        BY <1>3, <2>2, <2>3, <2>4, <4>1
      <4>2. CASE i # p
        <5>1. ~(i - 1 < p)
          BY <1>3, <2>6, <4>2
        <5> QED
          BY <2>3, <2>4, <5>1
      <4> QED
        BY <4>1, <4>2
    <3>3. f[i + 1] = IF l[i + 1] \in W THEN Append(f[i], l[i + 1]) ELSE f[i]
      BY <2>2, <2>4
    <3>4. h[i] = f[i + 1]
      BY <2>1, <3>1, <3>2, <3>3
    <3> QED
      BY <2>6, <3>4
  <2> QED
    BY <2>5, <2>6
<1> HIDE DEF P
<1>6. 0 .. k \subseteq P
  BY <1>3, <1>4, <1>5, Throughout
<1>7. h[k] = IF k < p THEN f[k] ELSE f[k + 1]
  <2>1. k \in P
    BY <1>3, <1>6
  <2> QED
    BY <2>1 DEF P
<1>8. CASE k < p
  <2>1. p = n /\ n - 1 = k
    BY <1>3, <1>8
  <2>2. f[n] = f[n - 1]
    BY <1>1, <1>3, <2>1 DEF KeptUpTo
  <2> QED
    BY <1>1, <1>2, <1>7, <1>8, <2>1, <2>2
<1>9. CASE ~(k < p)
  BY <1>1, <1>2, <1>3, <1>7, <1>9
<1> QED
  BY <1>8, <1>9

\* Slices of an array of n elements of V.
Slices(n, V) == [array : [1 .. n -> V], len : 0 .. n, panic : BOOLEAN]

\* The elements of W are in the slice.
Has(s, W) == \A u \in W : \E i \in 1 .. s.len : s.array[i] = u

\* The slice has no element twice.
Single(s) == \A i, j \in 1 .. s.len : s.array[i] = s.array[j] => i = j

\* A slice is of its array, and has its length.
LEMMA ElementsOf ==
  ASSUME NEW n \in Nat, NEW V, NEW s \in Slices(n, V)
  PROVE  /\ s = [array |-> s.array, len |-> s.len, panic |-> s.panic]
         /\ s.array \in [1 .. n -> V] /\ s.len \in 0 .. n /\ s.panic \in BOOLEAN
         /\ s.array \in Seq(V) /\ Elements(s) \in Seq(V) /\ Len(Elements(s)) = s.len
         /\ \A i \in 1 .. s.len : Elements(s)[i] = s.array[i]
<1>1. /\ s = [array |-> s.array, len |-> s.len, panic |-> s.panic]
      /\ s.array \in [1 .. n -> V] /\ s.len \in 0 .. n /\ s.panic \in BOOLEAN
  BY DEF Slices
<1> DEFINE a == s.array
           k == s.len
<1>2. a \in Seq(V) /\ k \in Nat /\ \A i \in 1 .. k : a[i] \in V
  BY <1>1
<1> HIDE DEF a, k
<1>3. /\ SubSeq(a, 1, k) \in Seq(V) /\ Len(SubSeq(a, 1, k)) = k
      /\ \A i \in 1 .. k : SubSeq(a, 1, k)[i] = a[i]
  <2>1. k - 1 + 1 = k /\ \A i \in 1 .. k : 1 + i - 1 = i
    BY <1>2
  <2>2. /\ SubSeq(a, 1, k) \in Seq(V) /\ Len(SubSeq(a, 1, k)) = IF 1 <= k THEN k - 1 + 1 ELSE 0
        /\ \A i \in 1 .. k - 1 + 1 : SubSeq(a, 1, k)[i] = a[1 + i - 1]
    BY <1>2, SubSeqProperties
  <2> QED
    BY <1>2, <2>1, <2>2
<1> QED
  BY <1>1, <1>2, <1>3 DEF Elements, a, k

\* An index that is out of bounds panics.
LEMMA CutOutside ==
  ASSUME NEW n \in Nat, NEW V, NEW s \in Slices(n, V), NEW i \in 1 .. n, i > s.len
  PROVE  CutOut(s, i) = [array |-> s.array, len |-> s.len, panic |-> TRUE]
<1>1. /\ s = [array |-> s.array, len |-> s.len, panic |-> s.panic]
      /\ s.array \in [1 .. n -> V] /\ s.len \in 0 .. n /\ s.panic \in BOOLEAN
  BY ElementsOf
<1>2. CutOut(s, i) = [s EXCEPT !.panic = TRUE]
  BY <1>1 DEF CutOut, Cut
<1> QED
  BY <1>1, <1>2

\* Else the elements behind move, and the slice is one shorter.
LEMMA CutInside ==
  ASSUME NEW n \in Nat, NEW V, NEW s \in Slices(n, V), NEW i \in 1 .. s.len
  PROVE  CutOut(s, i) = [array |-> [k \in 1 .. n |-> IF k \in i .. s.len - 1 THEN s.array[k + 1]
                                                     ELSE s.array[k]],
                         len |-> s.len - 1, panic |-> s.panic]
<1>1. s.array \in [1 .. n -> V] /\ s.len \in 0 .. n /\ i \in 1 .. n
  BY ElementsOf
<1>2. ~(i + 0 > s.len) /\ s.len - 1 - 0 = s.len - 1 /\ \A k \in 1 .. n : k + 1 + 0 = k + 1
  BY <1>1
<1>3. CutOut(s, i) = [array |-> [k \in DOMAIN s.array |->
                     IF k \in i .. s.len - 1 - 0 THEN s.array[k + 1 + 0] ELSE s.array[k]],
                   len |-> s.len - 1 - 0, panic |-> s.panic]
  BY <1>2 DEF CutOut, Cut
<1>4. [k \in DOMAIN s.array |->
         IF k \in i .. s.len - 1 - 0 THEN s.array[k + 1 + 0] ELSE s.array[k]]
      = [k \in 1 .. n |-> IF k \in i .. s.len - 1 THEN s.array[k + 1] ELSE s.array[k]]
  BY <1>1, <1>2
<1> QED
  BY <1>2, <1>3, <1>4

\* Field by field.
LEMMA CutFields ==
  ASSUME NEW n \in Nat, NEW V, NEW s \in Slices(n, V), NEW i \in 1 .. s.len
  PROVE  /\ CutOut(s, i).len = s.len - 1 /\ CutOut(s, i).panic = s.panic
         /\ \A k \in 1 .. n : CutOut(s, i).array[k] =
              IF k \in i .. s.len - 1 THEN s.array[k + 1] ELSE s.array[k]
<1> DEFINE new == [k \in 1 .. n |-> IF k \in i .. s.len - 1 THEN s.array[k + 1] ELSE s.array[k]]
<1>1. CutOut(s, i) = [array |-> new, len |-> s.len - 1, panic |-> s.panic]
  BY CutInside
<1>2. \A k \in 1 .. n : new[k] = IF k \in i .. s.len - 1 THEN s.array[k + 1] ELSE s.array[k]
  OBVIOUS
<1> HIDE DEF new
<1> QED
  BY <1>1, <1>2

\* A slice stays one of the same array.
LEMMA CutTyped ==
  ASSUME NEW n \in Nat, NEW V, NEW s \in Slices(n, V), NEW i \in 1 .. n
  PROVE  CutOut(s, i) \in Slices(n, V)
<1>1. s.array \in [1 .. n -> V] /\ s.len \in 0 .. n /\ s.panic \in BOOLEAN
  BY ElementsOf
<1>2. CASE i > s.len
  <2>1. CutOut(s, i) = [array |-> s.array, len |-> s.len, panic |-> TRUE]
    BY <1>2, CutOutside
  <2> QED
    BY <1>1, <2>1 DEF Slices
<1>3. CASE ~(i > s.len)
  <2> DEFINE new == [k \in 1 .. n |-> IF k \in i .. s.len - 1 THEN s.array[k + 1] ELSE s.array[k]]
  <2>1. i \in 1 .. s.len
    BY <1>1, <1>3
  <2>2. CutOut(s, i) = [array |-> new, len |-> s.len - 1, panic |-> s.panic]
    BY <2>1, CutInside
  <2>3. new \in [1 .. n -> V] /\ s.len - 1 \in 0 .. n
    BY <1>1, <2>1
  <2> HIDE DEF new
  <2> QED
    BY <1>1, <2>2, <2>3 DEF Slices
<1> QED
  BY <1>2, <1>3

\* What is not cut out stays.
LEMMA CutHas ==
  ASSUME NEW n \in Nat, NEW V, NEW s \in Slices(n, V), NEW i \in 1 .. n, NEW W,
         s.array[i] \notin W, Has(s, W)
  PROVE  Has(CutOut(s, i), W)
<1> DEFINE c == CutOut(s, i)
<1>1. CASE i > s.len
  <2>1. c = [array |-> s.array, len |-> s.len, panic |-> TRUE]
    BY <1>1, CutOutside
  <2> HIDE DEF c
  <2>2. c.array = s.array /\ c.len = s.len
    BY <2>1
  <2>3. Has(c, W)
    BY <2>2 DEF Has
  <2> QED
    BY <2>3 DEF c
<1>2. CASE ~(i > s.len)
  <2>1. /\ c.len = s.len - 1 /\ s.len \in 0 .. n
        /\ \A k \in 1 .. n : c.array[k] = IF k \in i .. s.len - 1 THEN s.array[k + 1] ELSE s.array[k]
    <3>1. s.len \in 0 .. n
      BY ElementsOf
    <3>2. i \in 1 .. s.len
      BY <1>2, <3>1
    <3> QED
      BY <3>1, <3>2, CutFields
  <2> HIDE DEF c
  <2>2. ASSUME NEW u \in W
        PROVE  \E k \in 1 .. c.len : c.array[k] = u
    <3>1. PICK j \in 1 .. s.len : s.array[j] = u
      BY DEF Has
    <3>2. j # i
      BY <3>1
    <3>3. CASE j < i
      <4>1. j \in 1 .. c.len /\ j \in 1 .. n /\ j \notin i .. s.len - 1
        BY <1>2, <2>1, <3>3
      <4> QED
        BY <2>1, <3>1, <4>1
    <3>4. CASE j > i
      <4>1. j - 1 \in 1 .. c.len /\ j - 1 \in 1 .. n /\ j - 1 \in i .. s.len - 1 /\ j - 1 + 1 = j
        BY <1>2, <2>1, <3>4
      <4> QED
        BY <2>1, <3>1, <4>1
    <3> QED
      BY <3>2, <3>3, <3>4
  <2> QED
    BY <2>2 DEF Has, c
<1> QED
  BY <1>1, <1>2

\* What a run of the inner loop makes of the slice, up to each index.
Struck(f, s, u) ==
  /\ f[0] = s
  /\ \A i \in 1 .. s.len : f[i] =
       IF f[i - 1].panic \/ f[i - 1].array[i] # u THEN f[i - 1] ELSE CutOut(f[i - 1], i)

\* The inner loop goes through the indices of the slice.
LEMMA StruckByOne ==
  ASSUME NEW n \in Nat, NEW V, NEW s \in Slices(n, V), NEW u
  PROVE  \E f \in [0 .. s.len -> Slices(n, V)] : Struck(f, s, u) /\ Strike(s, u) = f[s.len]
<1> DEFINE k == s.len
           T == Slices(n, V)
           Step(t, i) == IF t.panic \/ t.array[i] # u THEN t ELSE CutOut(t, i)
           Body(f) == [i \in 0 .. k |-> IF i = 0 THEN s ELSE Step(f[i - 1], i)]
           g == [i \in 1 .. k |-> [t \in T |-> Step(t, i)]]
           c == CHOOSE f : f = Body(f)
<1>1. k \in Nat /\ \A i \in 1 .. k : i \in 1 .. n
  BY ElementsOf
<1>2. \A t \in T, i \in 1 .. k : Step(t, i) \in T
  BY <1>1, CutTyped
<1>3. g \in [1 .. k -> [T -> T]]
  <2> HIDE DEF Step, T
  <2> QED
    BY <1>2
<1>4. \A t \in T, i \in 1 .. k : g[i][t] = Step(t, i)
  OBVIOUS
<1>5. Strike(s, u) = c[k]
  BY DEF Strike
<1>6. s \in T
  OBVIOUS
<1> HIDE DEF k, g, T, Step
<1>7. k \in Nat
  BY <1>1
<1>8. PICK f \in [0 .. k -> T] : Iterates(f, k, s, g)
  BY <1>3, <1>6, <1>7, Iterated
<1>9. \A i \in 1 .. k : f[i] = Step(f[i - 1], i)
  <2>1. \A i \in 1 .. k : f[i - 1] \in T
    BY <1>7, <1>8
  <2> QED
    BY <1>4, <1>8, <2>1 DEF Iterates
<1>10. f = Body(f)
  <2>1. \A i \in 0 .. k : f[i] = IF i = 0 THEN s ELSE Step(f[i - 1], i)
    BY <1>7, <1>8, <1>9 DEF Iterates
  <2> QED
    BY <1>8, <2>1
<1>11. c = Body(c)
  <2> HIDE DEF Body
  <2> QED
    BY <1>10
<1> HIDE DEF c
<1>12. c[0] = s /\ \A i \in 1 .. k : c[i] = Step(c[i - 1], i)
  BY <1>7, <1>11
<1>13. c \in [0 .. k -> T]
  <2> DEFINE P == {i \in 0 .. k : c[i] \in T}
  <2>1. 0 \in P
    BY <1>6, <1>7, <1>12
  <2>2. ASSUME NEW i \in 1 .. k, i - 1 \in P
        PROVE  i \in P
    BY <1>2, <1>7, <1>12, <2>2
  <2> HIDE DEF P
  <2>3. 0 .. k \subseteq P
    BY <1>7, <2>1, <2>2, Throughout
  <2>4. \A i \in 0 .. k : c[i] \in T
    BY <2>3 DEF P
  <2> QED
    BY <1>11, <2>4
<1>14. Struck(c, s, u)
  BY <1>12 DEF Struck, k, Step
<1> QED
  BY <1>5, <1>13, <1>14 DEF k, T

\* A receiver that is not struck stays in the slice.
LEMMA StrikeHas ==
  ASSUME NEW n \in Nat, NEW V, NEW s \in Slices(n, V), NEW u
  PROVE  /\ Strike(s, u) \in Slices(n, V)
         /\ \A W : u \notin W /\ Has(s, W) => Has(Strike(s, u), W)
<1> DEFINE k == s.len
<1>1. k \in Nat /\ \A i \in 1 .. k : i \in 1 .. n
  BY ElementsOf
<1>2. PICK f \in [0 .. k -> Slices(n, V)] : Struck(f, s, u) /\ Strike(s, u) = f[k]
  BY StruckByOne
<1>3. f[k] \in Slices(n, V)
  BY <1>1, <1>2
<1>4. ASSUME NEW W, u \notin W, Has(s, W)
      PROVE  Has(f[k], W)
  <2> DEFINE P == {i \in 0 .. k : Has(f[i], W)}
  <2>1. 0 \in P
    BY <1>1, <1>2, <1>4 DEF Struck
  <2>2. ASSUME NEW i \in 1 .. k, i - 1 \in P
        PROVE  i \in P
    <3> DEFINE t == f[i - 1]
    <3>1. t \in Slices(n, V) /\ i \in 1 .. n /\ i \in 0 .. k /\ Has(t, W)
      BY <1>1, <1>2, <2>2
    <3>2. f[i] = IF t.panic \/ t.array[i] # u THEN t ELSE CutOut(t, i)
      BY <1>2 DEF Struck
    <3> HIDE DEF t
    <3>3. t.array[i] = u => Has(CutOut(t, i), W)
      BY <1>4, <3>1, CutHas
    <3> QED
      BY <3>1, <3>2, <3>3
  <2> HIDE DEF P
  <2>3. 0 .. k \subseteq P
    BY <1>1, <2>1, <2>2, Throughout
  <2>4. k \in P
    BY <1>1, <2>3
  <2> QED
    BY <2>4 DEF P
<1> QED
  BY <1>2, <1>3, <1>4

\* A receiver that is not in the slice strikes nothing.
LEMMA StrikeNothing ==
  ASSUME NEW n \in Nat, NEW V, NEW s \in Slices(n, V), NEW u, \A i \in 1 .. s.len : s.array[i] # u
  PROVE  Strike(s, u) = s
<1> DEFINE k == s.len
<1>1. k \in Nat
  BY ElementsOf
<1>2. PICK f \in [0 .. k -> Slices(n, V)] : Struck(f, s, u) /\ Strike(s, u) = f[k]
  BY StruckByOne
<1> DEFINE P == {i \in 0 .. k : f[i] = s}
<1>3. 0 \in P
  BY <1>1, <1>2 DEF Struck
<1>4. ASSUME NEW i \in 1 .. k, i - 1 \in P
      PROVE  i \in P
  BY <1>1, <1>2, <1>4 DEF Struck
<1> HIDE DEF P
<1>5. 0 .. k \subseteq P
  BY <1>1, <1>3, <1>4, Throughout
<1>6. k \in P
  BY <1>1, <1>5
<1> QED
  BY <1>2, <1>6 DEF P

\* One that is in it once is cut out, and the loop finds it no more, also where the
\* array has doubles behind the slice.
LEMMA StrikeOne ==
  ASSUME NEW n \in Nat, NEW V, NEW s \in Slices(n, V), Single(s), s.panic = FALSE,
         NEW p \in 1 .. s.len
  PROVE  Strike(s, s.array[p]) = CutOut(s, p)
<1> DEFINE k == s.len
           u == s.array[p]
           c == CutOut(s, p)
<1>1. k \in Nat /\ p \in 1 .. k /\ \A i \in 1 .. k : i \in 1 .. n
  BY ElementsOf
<1>2. PICK f \in [0 .. k -> Slices(n, V)] : Struck(f, s, u) /\ Strike(s, u) = f[k]
  BY StruckByOne
<1>3. \A i \in 1 .. k : s.array[i] = u => i = p
  BY DEF Single
<1>4. \A i \in 1 .. n : c.array[i] = IF i \in p .. k - 1 THEN s.array[i + 1] ELSE s.array[i]
  BY CutFields
<1> DEFINE P == {i \in 0 .. k : f[i] = IF i < p THEN s ELSE c}
<1>5. 0 \in P
  BY <1>1, <1>2 DEF Struck
<1>6. ASSUME NEW i \in 1 .. k, i - 1 \in P
      PROVE  i \in P
  <2>1. f[i] = IF f[i - 1].panic \/ f[i - 1].array[i] # u THEN f[i - 1] ELSE CutOut(f[i - 1], i)
    BY <1>2 DEF Struck
  <2>2. f[i - 1] = IF i - 1 < p THEN s ELSE c
    BY <1>6
  <2>3. s.array[p] = u /\ c = CutOut(s, p)
    OBVIOUS
  <2> HIDE DEF k, u, c
  <2>4. CASE i < p
    <3>1. f[i - 1] = s /\ s.array[i] # u
      BY <1>1, <1>3, <2>2, <2>4
    <3> QED
      BY <1>1, <2>1, <2>4, <3>1
  <2>5. CASE i = p
    <3>1. f[i - 1] = s
      BY <1>1, <2>2, <2>5
    <3> QED
      BY <1>1, <2>1, <2>3, <2>5, <3>1
  <2>6. CASE i > p
    <3>1. f[i - 1] = c /\ ~(i < p)
      BY <1>1, <2>2, <2>6
    <3>2. c.array[i] # u
      <4>1. CASE i \in p .. k - 1
        <5>1. i + 1 \in 1 .. k /\ i + 1 # p /\ i \in 1 .. n
          BY <1>1, <2>6, <4>1
        <5> QED
          BY <1>3, <1>4, <4>1, <5>1
      <4>2. CASE i \notin p .. k - 1
        <5>1. i # p /\ i \in 1 .. n
          BY <1>1, <2>6
        <5> QED
          BY <1>3, <1>4, <4>2, <5>1
      <4> QED
        BY <4>1, <4>2
    <3> QED
      BY <1>1, <2>1, <3>1, <3>2
  <2> QED
    BY <1>1, <2>4, <2>5, <2>6
<1> HIDE DEF P
<1>7. 0 .. k \subseteq P
  BY <1>1, <1>5, <1>6, Throughout
<1>8. k \in P
  BY <1>1, <1>7
<1> QED
  BY <1>1, <1>2, <1>8 DEF P

\* What is left when the only occurrence of a receiver is cut out.
LEMMA CutOne ==
  ASSUME NEW n \in Nat, NEW V, NEW s \in Slices(n, V), Single(s), NEW p \in 1 .. s.len
  PROVE  /\ Single(CutOut(s, p))
         /\ \A k \in 1 .. CutOut(s, p).len :
              /\ CutOut(s, p).array[k] # s.array[p]
              /\ \E j \in 1 .. s.len : CutOut(s, p).array[k] = s.array[j]
         /\ \A W : s.array[p] \notin W => Kept(Elements(CutOut(s, p)), W) = Kept(Elements(s), W)
<1> DEFINE c == CutOut(s, p)
           k == s.len
<1>1. k \in Nat /\ p \in 1 .. k /\ \A i \in 1 .. k : i \in 1 .. n
  BY ElementsOf
<1>2. /\ c.len = k - 1 /\ c \in Slices(n, V)
      /\ \A i \in 1 .. n : c.array[i] = IF i \in p .. k - 1 THEN s.array[i + 1] ELSE s.array[i]
  BY <1>1, CutFields, CutTyped
<1>3. \A i, j \in 1 .. k : s.array[i] = s.array[j] => i = j
  BY DEF Single
<1>4. /\ Elements(s) \in Seq(V) /\ Len(Elements(s)) = k
      /\ \A i \in 1 .. k : Elements(s)[i] = s.array[i]
  BY ElementsOf
<1>5. /\ Elements(c) \in Seq(V) /\ Len(Elements(c)) = c.len
      /\ \A i \in 1 .. c.len : Elements(c)[i] = c.array[i]
  <2> HIDE DEF c
  <2> QED
    BY <1>2, ElementsOf
<1> HIDE DEF c, k
<1>6. \A i \in 1 .. c.len : /\ i \in 1 .. n /\ i \in 1 .. k /\ i + 1 \in 1 .. k
                            /\ c.array[i] = IF i < p THEN s.array[i] ELSE s.array[i + 1]
  BY <1>1, <1>2
<1>7. Single(c)
  <2> SUFFICES ASSUME NEW i \in 1 .. c.len, NEW j \in 1 .. c.len, c.array[i] = c.array[j]
               PROVE  i = j
    BY DEF Single
  <2> QED
    BY <1>1, <1>3, <1>6
<1>8. \A i \in 1 .. c.len : c.array[i] # s.array[p] /\ \E j \in 1 .. k : c.array[i] = s.array[j]
  BY <1>1, <1>3, <1>6
<1>9. ASSUME NEW W, s.array[p] \notin W
      PROVE  Kept(Elements(c), W) = Kept(Elements(s), W)
  <2> DEFINE l == Elements(s)
             m == Elements(c)
  <2>1. l \in Seq(V) /\ m \in Seq(V) /\ p \in 1 .. Len(l) /\ l[p] \notin W /\ Len(m) = Len(l) - 1
    BY <1>1, <1>2, <1>4, <1>5, <1>9
  <2>2. \A j \in 1 .. Len(m) : m[j] = IF j < p THEN l[j] ELSE l[j + 1]
    BY <1>4, <1>5, <1>6
  <2> HIDE DEF l, m
  <2>3. Kept(m, W) = Kept(l, W)
    BY <2>1, <2>2, KeptWithout
  <2> QED
    BY <2>3 DEF l, m
<1> QED
  BY <1>7, <1>8, <1>9 DEF c, k

\* What the outer loop makes of the slice: the receivers in t are struck in turn.
Striking(f, l, t) ==
  /\ f[0] = Slice(l)
  /\ \A i \in 1 .. Len(t) : f[i] = IF f[i - 1].panic THEN f[i - 1] ELSE Strike(f[i - 1], t[i])

\* At first the slice is the whole array.
LEMMA SliceOf ==
  ASSUME NEW V, NEW l \in Seq(V)
  PROVE  /\ Slice(l) \in Slices(Len(l), V) /\ Slice(l).panic = FALSE
         /\ Slice(l).array = l /\ Slice(l).len = Len(l) /\ Elements(Slice(l)) = l
<1>1. Len(l) \in Nat /\ l \in [1 .. Len(l) -> V]
  BY LenProperties
<1>2. Slice(l) \in Slices(Len(l), V)
  BY <1>1 DEF Slice, Slices
<1>3. Slice(l).panic = FALSE /\ Slice(l).array = l /\ Slice(l).len = Len(l)
  BY DEF Slice
<1> DEFINE e == Elements(Slice(l))
<1>4. e \in Seq(V) /\ Len(e) = Len(l) /\ \A i \in 1 .. Len(l) : e[i] = l[i]
  BY <1>1, <1>2, <1>3, ElementsOf
<1> HIDE DEF e
<1>5. e = l
  BY <1>1, <1>4
<1> QED
  BY <1>2, <1>3, <1>5 DEF e

\* The outer loop goes through the receivers that were served, if there are two.
LEMMA RedirectedByOne ==
  ASSUME NEW V, NEW l \in Seq(V), NEW C
  PROVE  \E f \in [0 .. Len(Kept(l, C)) -> Slices(Len(l), V)] :
           /\ Striking(f, l, Kept(l, C))
           /\ Redirected(l, C) = f[IF Len(Kept(l, C)) > 1 THEN Len(Kept(l, C)) ELSE 0]
<1> DEFINE s == Kept(l, C)
           k == Len(s)
           T == Slices(Len(l), V)
           Step(t, i) == IF t.panic THEN t ELSE Strike(t, s[i])
           Body(f) == [i \in 0 .. k |-> IF i = 0 THEN Slice(l) ELSE Step(f[i - 1], i)]
           g == [i \in 1 .. k |-> [t \in T |-> Step(t, i)]]
           c == CHOOSE f : f = Body(f)
<1>1. k \in Nat /\ Len(l) \in Nat
  BY KeptElements, LenProperties
<1>2. \A t \in T, i \in 1 .. k : Step(t, i) \in T
  BY <1>1, StrikeHas
<1>3. g \in [1 .. k -> [T -> T]]
  <2> HIDE DEF Step, T
  <2> QED
    BY <1>2
<1>4. \A t \in T, i \in 1 .. k : g[i][t] = Step(t, i)
  OBVIOUS
<1>5. Redirected(l, C) = c[IF k > 1 THEN k ELSE 0]
  BY DEF Redirected
<1>6. Slice(l) \in T
  BY SliceOf
<1> HIDE DEF k, g, T, Step
<1>7. k \in Nat
  BY <1>1
<1>8. PICK f \in [0 .. k -> T] : Iterates(f, k, Slice(l), g)
  BY <1>3, <1>6, <1>7, Iterated
<1>9. \A i \in 1 .. k : f[i] = Step(f[i - 1], i)
  <2>1. \A i \in 1 .. k : f[i - 1] \in T
    BY <1>7, <1>8
  <2> QED
    BY <1>4, <1>8, <2>1 DEF Iterates
<1>10. f = Body(f)
  <2>1. \A i \in 0 .. k : f[i] = IF i = 0 THEN Slice(l) ELSE Step(f[i - 1], i)
    BY <1>7, <1>8, <1>9 DEF Iterates
  <2> QED
    BY <1>8, <2>1
<1>11. c = Body(c)
  <2> HIDE DEF Body
  <2> QED
    BY <1>10
<1> HIDE DEF c
<1>12. c[0] = Slice(l) /\ \A i \in 1 .. k : c[i] = Step(c[i - 1], i)
  BY <1>7, <1>11
<1>13. c \in [0 .. k -> T]
  <2> DEFINE P == {i \in 0 .. k : c[i] \in T}
  <2>1. 0 \in P
    BY <1>6, <1>7, <1>12
  <2>2. ASSUME NEW i \in 1 .. k, i - 1 \in P
        PROVE  i \in P
    BY <1>2, <1>7, <1>12, <2>2
  <2> HIDE DEF P
  <2>3. 0 .. k \subseteq P
    BY <1>7, <2>1, <2>2, Throughout
  <2>4. \A i \in 0 .. k : c[i] \in T
    BY <2>3 DEF P
  <2> QED
    BY <1>11, <2>4
<1>14. Striking(c, l, s)
  BY <1>12 DEF Striking, k, Step
<1> QED
  BY <1>5, <1>13, <1>14 DEF k, T

\* Whoever was not served is left in the slice, and so in its array.
LEMMA OthersLeft ==
  ASSUME NEW V, NEW l \in Seq(V), NEW C
  PROVE  /\ Redirected(l, C) \in Slices(Len(l), V)
         /\ Has(Redirected(l, C), Range(l) \ C)
<1> DEFINE s == Kept(l, C)
           k == Len(s)
           n == Len(l)
           W == Range(l) \ C
<1>1. n \in Nat /\ s \in Seq(V) /\ k \in Nat /\ Range(s) = Range(l) \cap C
  BY KeptElements, LenProperties
<1>2. PICK f \in [0 .. k -> Slices(n, V)] :
        Striking(f, l, s) /\ Redirected(l, C) = f[IF k > 1 THEN k ELSE 0]
  BY RedirectedByOne
<1>3. \A i \in 1 .. k : s[i] \notin W
  BY <1>1 DEF Range
<1>4. Has(Slice(l), W)
  <2>1. Slice(l).array = l /\ Slice(l).len = Len(l) /\ DOMAIN l = 1 .. Len(l)
    BY SliceOf
  <2> QED
    BY <2>1 DEF Has, Range
<1> HIDE DEF W, k, n, s
<1> DEFINE P == {i \in 0 .. k : Has(f[i], W)}
<1>5. 0 \in P
  BY <1>1, <1>2, <1>4 DEF Striking
<1>6. ASSUME NEW i \in 1 .. k, i - 1 \in P
      PROVE  i \in P
  <2>1. f[i] = IF f[i - 1].panic THEN f[i - 1] ELSE Strike(f[i - 1], s[i])
    BY <1>2 DEF Striking, k
  <2>2. f[i - 1] \in Slices(n, V) /\ Has(f[i - 1], W) /\ i \in 0 .. k
    BY <1>1, <1>2, <1>6
  <2>3. Has(Strike(f[i - 1], s[i]), W)
    BY <1>1, <1>3, <2>2, StrikeHas
  <2> QED
    BY <2>1, <2>2, <2>3
<1> HIDE DEF P
<1>7. 0 .. k \subseteq P
  BY <1>1, <1>5, <1>6, Throughout
<1> DEFINE e == IF k > 1 THEN k ELSE 0
<1>8. e \in 0 .. k
  BY <1>1
<1> HIDE DEF e
<1>9. f[e] \in Slices(n, V) /\ Has(f[e], W)
  <2>1. e \in P
    BY <1>7, <1>8
  <2> QED
    BY <1>2, <1>8, <2>1 DEF P
<1> QED
  BY <1>2, <1>9 DEF e, W, n

\* If nobody is listed twice, the removal stays in its bounds, and leaves just
\* those that were not served, unless a single one was.
LEMMA JustTheOthersLeft ==
  ASSUME NEW V, NEW l \in Seq(V), IsInjective(l), NEW C \in SUBSET Range(l)
  PROVE  /\ Redirected(l, C).panic = FALSE
         /\ Elements(Redirected(l, C)) = IF Cardinality(C) > 1 THEN Kept(l, Range(l) \ C) ELSE l
<1> DEFINE s == Kept(l, C)
           k == Len(s)
           n == Len(l)
           W == Range(l) \ C
<1>1. /\ n \in Nat /\ s \in Seq(V) /\ k \in Nat /\ Range(s) = C /\ IsInjective(s)
      /\ DOMAIN s = 1 .. k /\ DOMAIN l = 1 .. n
  <2>1. s \in Seq(V) /\ Range(s) = Range(l) \cap C /\ IsInjective(s)
    BY KeptElements
  <2>2. Range(l) \cap C = C
    OBVIOUS
  <2> HIDE DEF s
  <2> QED
    BY <2>1, <2>2
<1>2. PICK f \in [0 .. k -> Slices(n, V)] :
        Striking(f, l, s) /\ Redirected(l, C) = f[IF k > 1 THEN k ELSE 0]
  BY RedirectedByOne
<1>3. Cardinality(C) = k
  <2> HIDE DEF k, s
  <2>1. s \in [1 .. k -> C] /\ \A c \in C : \E i \in 1 .. k : s[i] = c
    BY <1>1 DEF Range
  <2>2. s \in Bijection(1 .. k, C)
    BY <1>1, <2>1 DEF Bijection, Injection, Surjection, IsInjective
  <2>3. ExistsBijection(1 .. k, C)
    BY <2>2 DEF ExistsBijection
  <2>4. IsFiniteSet(1 .. k) /\ Cardinality(1 .. k) = k
    BY <1>1, FS_Interval
  <2> QED
    BY <2>3, <2>4, FS_Bijection
<1>4. \A i \in 1 .. k : s[i] \notin W /\ s[i] \in C /\ \A j \in 1 .. k : s[i] = s[j] => i = j
  BY <1>1 DEF Range, IsInjective
<1>5. /\ Slice(l) \in Slices(n, V) /\ Slice(l).panic = FALSE
      /\ Slice(l).array = l /\ Slice(l).len = n /\ Elements(Slice(l)) = l
  BY SliceOf
<1>6. \A i \in 1 .. n : l[i] \in Range(l)
  BY <1>1 DEF Range
<1> DEFINE Good(t, i) == /\ t.panic = FALSE /\ Single(t)
                         /\ Kept(Elements(t), W) = Kept(l, W)
                         /\ \A h \in 1 .. t.len : t.array[h] \in Range(l)
                         /\ \A h \in 1 .. t.len, j \in 1 .. i : t.array[h] # s[j]
<1>7. Good(Slice(l), 0)
  <2>1. Single(Slice(l))
    BY <1>1, <1>5 DEF Single, IsInjective
  <2> HIDE DEF n, s, k, W
  <2> QED
    BY <1>5, <1>6, <2>1
<1> HIDE DEF W, k, n, s
<1>8. ASSUME NEW i \in 1 .. k, NEW t \in Slices(n, V), Good(t, i - 1)
      PROVE  Strike(t, s[i]) \in Slices(n, V) /\ Good(Strike(t, s[i]), i)
  <2> DEFINE r == Strike(t, s[i])
  <2>1. r \in Slices(n, V)
    BY <1>1, StrikeHas
  <2>2. t.len \in Nat /\ \A j \in 1 .. i : j = i \/ j \in 1 .. i - 1
    BY <1>1, ElementsOf
  <2>3. CASE \A h \in 1 .. t.len : t.array[h] # s[i]
    <3>1. r = t
      BY <1>1, <2>3, StrikeNothing
    <3> HIDE DEF r
    <3>2. Good(t, i)
      BY <1>8, <2>2, <2>3
    <3> QED
      BY <2>1, <3>1, <3>2 DEF r
  <2>4. CASE \E h \in 1 .. t.len : t.array[h] = s[i]
    <3>1. PICK p \in 1 .. t.len : t.array[p] = s[i]
      BY <2>4
    <3>2. Strike(t, t.array[p]) = CutOut(t, p)
      BY <1>1, <1>8, StrikeOne
    <3> DEFINE c == CutOut(t, p)
    <3>3. r = c
      BY <3>1, <3>2
    <3>4. c.panic = FALSE
      BY <1>1, <1>8, CutFields
    <3>5. /\ Single(c)
          /\ \A h \in 1 .. c.len : c.array[h] # t.array[p] /\ \E j \in 1 .. t.len : c.array[h] = t.array[j]
      BY <1>1, <1>8, CutOne
    <3>6. t.array[p] \notin W
      BY <1>4, <3>1
    <3>7. Kept(Elements(c), W) = Kept(Elements(t), W)
      BY <1>1, <1>8, <3>6, CutOne
    <3> HIDE DEF r, c
    <3>8. \A h \in 1 .. c.len : c.array[h] \in Range(l)
      BY <1>8, <3>5
    <3>9. \A h \in 1 .. c.len, j \in 1 .. i : c.array[h] # s[j]
      BY <1>8, <2>2, <3>1, <3>5
    <3>10. Good(c, i)
      BY <1>8, <3>4, <3>5, <3>7, <3>8, <3>9
    <3> QED
      BY <2>1, <3>3, <3>10 DEF r
  <2> QED
    BY <2>3, <2>4
<1> DEFINE P == {i \in 0 .. k : Good(f[i], i)}
<1>9. f[0] = Slice(l) /\ \A i \in 1 .. k : f[i] = IF f[i - 1].panic THEN f[i - 1] ELSE Strike(f[i - 1], s[i])
  BY <1>2 DEF Striking, k
<1> HIDE DEF Good
<1>10. \A i \in 0 .. k : Good(f[i], i) => f[i].panic = FALSE
  BY DEF Good
<1>11. 0 \in P
  BY <1>1, <1>7, <1>9
<1>12. ASSUME NEW i \in 1 .. k, i - 1 \in P
       PROVE  i \in P
  <2>1. i - 1 \in 0 .. k /\ i \in 0 .. k /\ f[i - 1] \in Slices(n, V) /\ Good(f[i - 1], i - 1)
    BY <1>1, <1>2, <1>12
  <2>2. f[i] = Strike(f[i - 1], s[i])
    BY <1>9, <1>10, <2>1
  <2>3. Good(f[i], i)
    BY <1>8, <2>1, <2>2
  <2> QED
    BY <2>1, <2>3
<1> HIDE DEF P
<1>13. 0 .. k \subseteq P
  BY <1>1, <1>11, <1>12, Throughout
<1>14. CASE k > 1
  <2> DEFINE t == f[k]
             e == Elements(t)
  <2>1. t \in Slices(n, V) /\ Good(t, k) /\ k \in 0 .. k
    <3>1. k \in P
      BY <1>1, <1>13
    <3> QED
      BY <1>1, <1>2, <3>1 DEF P
  <2> HIDE DEF t
  <2>2. e \in Seq(V) /\ Len(e) = t.len /\ \A i \in 1 .. t.len : e[i] = t.array[i]
    BY <1>1, <2>1, ElementsOf
  <2>3. ASSUME NEW i \in 1 .. t.len
        PROVE  e[i] \in W
    <3>1. t.array[i] \in Range(l) /\ \A j \in 1 .. k : t.array[i] # s[j]
      BY <2>1 DEF Good
    <3>2. t.array[i] \notin C
      BY <1>1, <3>1 DEF Range
    <3> QED
      BY <2>2, <3>1, <3>2 DEF W
  <2> HIDE DEF e
  <2>4. Range(e) \subseteq W
    BY <2>2, <2>3 DEF Range
  <2>5. Kept(e, W) = e
    BY <2>2, <2>4, AllKept
  <2>6. Kept(e, W) = Kept(l, W) /\ t.panic = FALSE
    BY <2>1 DEF Good, e
  <2>7. Redirected(l, C) = t
    BY <1>2, <1>14 DEF t
  <2> QED
    BY <1>3, <1>14, <2>5, <2>6, <2>7 DEF e, W
<1>15. CASE ~(k > 1)
  <2>1. Redirected(l, C) = Slice(l)
    BY <1>2, <1>9, <1>15
  <2> QED
    BY <1>3, <1>5, <1>15, <2>1
<1> QED
  BY <1>14, <1>15

-----------------------------------------------------------------------------
(* Linked messages: the types, and what is kept of the targets *)

\* Each document has the other as its partner.
LEMMA Partners == Partner("original") = "linking" /\ Partner("linking") = "original"
  BY DEF Partner, Documents

\* TargetsAgree name users that there are.
LEMMA ListOf ==
  ASSUME NEW l \in Lists
  PROVE  l \in Seq(Everyone) /\ Range(l) \subseteq Everyone
<1>1. l \in Seq(Range(l))
  BY LinkedAssumption
<1>2. Range(l) \subseteq Everyone
  BY DEF Everyone
<1> HIDE DEF Everyone
<1>3. Len(l) \in Nat /\ l \in [1 .. Len(l) -> Everyone]
  BY <1>1, <1>2
<1> QED
  BY <1>2, <1>3

\* The documents that a redirected list may be in keep to the users that there are.
LEMMA RedirectedTargets ==
  ASSUME NEW l \in Seq(Everyone), NEW C
  PROVE  /\ Elements(Redirected(l, C)) \in Seq(Everyone)
         /\ Redirected(l, C).array \in Seq(Everyone)
         /\ Redirected(l, C).panic \in BOOLEAN
BY OthersLeft, ElementsOf, LenProperties

\* What a store may have of a document.
InStore == [status : States \cup {Nothing}, target : Seq(Everyone)]

\* The variables have their types at first.
LEMMA LinkedInitTypes == LinkedInit => LinkedTypeOK
<1> SUFFICES ASSUME LinkedInit
             PROVE  LinkedTypeOK
  OBVIOUS
<1>1. list \in Seq(Everyone) /\ <<>> \in Seq(Everyone)
  BY ListOf, EmptySeq DEF LinkedInit
<1>2. NoDocument \in InStore
  BY <1>1 DEF NoDocument, InStore
<1>3. /\ target \in [Documents -> Seq(Everyone)]
      /\ \A place \in {mongo, redis} : place \in [Documents -> InStore]
  BY <1>1, <1>2 DEF LinkedInit
<1>4. update \in [Updates ->
        [at : {"new", "partner", "tell", "write", "done", "failed", "panicked"},
         doc : Documents, kind : {"update", "delete", "bulk"}, asks : States, target : Seq(Everyone)]]
  BY <1>1, LinkedAssumption DEF LinkedInit, Unasked, Documents
<1> QED
  BY <1>3, <1>4 DEF LinkedTypeOK, LinkedInit, InStore

\* What the cached lists may be.
CachedLists == [Everyone -> [Documents -> States \cup {Nothing}]]

\* A cached list with one more status.
WithStatus(c, u, d, v) == [c EXCEPT ![u][d] = v]

\* It is one of the same type.
LEMMA CachedTypes ==
  ASSUME NEW c \in CachedLists, NEW u, NEW d \in Documents, NEW v \in States
  PROVE  WithStatus(c, u, d, v) \in CachedLists
<1> DEFINE F == [Documents -> States \cup {Nothing}]
           new == [c[u] EXCEPT ![d] = v]
<1>1. [c EXCEPT ![u][d] = v] = [c EXCEPT ![u] = new]
  OBVIOUS
<1>2. u \in Everyone => new \in F
  <2>1. u \in Everyone => c[u] \in [Documents -> States \cup {Nothing}]
    BY DEF CachedLists
  <2> QED
    BY <2>1
<1> HIDE DEF F, new
<1>3. c \in [Everyone -> F]
  BY DEF F, CachedLists
<1>4. [c EXCEPT ![u] = new] \in [Everyone -> F]
  BY <1>2, <1>3
<1> QED
  BY <1>1, <1>4 DEF F, WithStatus, CachedLists

\* What a step of the send request does to the types.
LEMMA SendTypes ==
  ASSUME LinkedTypeOK, Send
  PROVE  LinkedTypeOK'
<1>1. CASE NobodyListed
  BY <1>1 DEF NobodyListed, LinkedTypeOK, stores
<1>2. CASE CacheCopy
  <2>0. cached \in CachedLists
    BY DEF LinkedTypeOK, CachedLists
  <2>1. cached' \in CachedLists
    <3>1. cached' = cached \/ cached' = WithStatus(cached, Head(list), "linking", FirstState)
      BY <1>2 DEF CacheCopy, WithStatus
    <3> QED
      BY <2>0, <3>1, CachedTypes, LinkedAssumption DEF Documents
  <2> QED
    BY <1>2, <2>1 DEF CacheCopy, LinkedTypeOK, CachedLists
<1>3. CASE RedirectCopy
  <2>1. PICK connected \in SUBSET Range(list) :
          /\ served' = connected
          /\ sending' = IF Redirected(list, connected).panic THEN "panicked" ELSE "told"
          /\ target' = [d \in Documents |-> IF d = "linking" THEN Elements(Redirected(list, connected))
                                            ELSE Redirected(list, connected).array]
    BY <1>3 DEF RedirectCopy
  <2>2. list \in Seq(Everyone) /\ Range(list) \subseteq Everyone
    BY ListOf DEF LinkedTypeOK
  <2>3. target' \in [Documents -> Seq(Everyone)]
    BY <2>1, <2>2, RedirectedTargets
  <2>4. UNCHANGED <<style, list, mongo, redis, cached, update, changed, disturbed>>
    BY <1>3 DEF RedirectCopy, stores
  <2>5. served' \subseteq Everyone /\ sending' \in {"panicked", "told"}
    BY <2>1, <2>2
  <2> QED
    BY <2>3, <2>4, <2>5 DEF LinkedTypeOK
<1>4. ASSUME NEW at \in {"told", "copied"}, InsertDocument(DocumentAt(at), at)
      PROVE  LinkedTypeOK'
  <2> DEFINE d == DocumentAt(at)
  <2>1. d \in Documents
    BY DEF DocumentAt, Documents
  <2>2. NewDocument(d) \in InStore
    BY <2>1, LinkedAssumption DEF NewDocument, InStore, LinkedTypeOK
  <2>3. \A place \in {mongo, redis} : place \in [Documents -> InStore]
    BY DEF LinkedTypeOK, InStore
  <2>4. mongo' \in [Documents -> InStore] /\ redis' \in [Documents -> InStore]
    BY <1>4, <2>2, <2>3 DEF InsertDocument, InsertNew, stores
  <2>5. sending' \in {"copied", "done", "failed"}
        /\ UNCHANGED <<style, list, target, served, cached, update, changed, disturbed>>
    BY <1>4 DEF InsertDocument, InsertNew, AfterInsert, stores
  <2> QED
    BY <2>4, <2>5 DEF LinkedTypeOK, InStore
<1> QED
  BY <1>1, <1>2, <1>3, <1>4 DEF Send

\* A request that goes on keeps its type.
LEMMA AdvanceTypes ==
  ASSUME LinkedTypeOK, NEW q \in Updates,
         NEW at \in {"new", "partner", "tell", "write", "done", "failed", "panicked"}, Advance(q, at)
  PROVE  update' \in [Updates ->
           [at : {"new", "partner", "tell", "write", "done", "failed", "panicked"},
            doc : Documents, kind : {"update", "delete", "bulk"}, asks : States, target : Seq(Everyone)]]
BY DEF LinkedTypeOK, Advance

\* A step of a status request keeps the types.
LEMMA RequestTypes ==
  ASSUME LinkedTypeOK, NEW q \in Updates, UpdateStep(q)
  PROVE  LinkedTypeOK'
<1>1. /\ mongo \in [Documents -> InStore] /\ redis \in [Documents -> InStore]
      /\ update[q].doc \in Documents /\ Partner(update[q].doc) \in Documents
      /\ update[q].asks \in States /\ Removed \in States
      /\ cached \in CachedLists
  BY Partners, LinkedAssumption DEF LinkedTypeOK, InStore, Documents, CachedLists
<1>2. ASSUME NEW d \in Documents, NEW kind \in {"update", "delete", "bulk"}, NEW asks \in States,
             FindDocument(q, d, kind, asks)
      PROVE  LinkedTypeOK'
  <2> DEFINE seen == IF kind = "bulk" THEN mongo[d] ELSE Visible(d)
  <2>1. seen.target \in Seq(Everyone)
    BY <1>1 DEF Visible, InStore
  <2>2. update' = [update EXCEPT ![q] =
           [at |-> FirstStep(kind), doc |-> d, kind |-> kind, asks |-> asks, target |-> seen.target]]
    BY <1>2 DEF FindDocument
  <2> HIDE DEF seen
  <2>3. FirstStep(kind) \in {"partner", "tell", "write"}
    BY DEF FirstStep
  <2>4. update' \in [Updates ->
           [at : {"new", "partner", "tell", "write", "done", "failed", "panicked"},
            doc : Documents, kind : {"update", "delete", "bulk"}, asks : States, target : Seq(Everyone)]]
    BY <2>1, <2>2, <2>3 DEF LinkedTypeOK
  <2>5. changed' \subseteq Documents /\ disturbed' \in BOOLEAN /\ UNCHANGED <<sends, stores>>
    BY <1>2 DEF FindDocument, LinkedTypeOK
  <2> QED
    BY <2>4, <2>5 DEF LinkedTypeOK, sends, stores
<1>3. CASE TakePartner(q)
  <2> DEFINE d == Partner(update[q].doc)
  <2>1. ForReaders(q, mongo[d]) \in InStore
    BY <1>1 DEF ForReaders, InStore
  <2>2. redis' = [redis EXCEPT ![d] = ForReaders(q, mongo[d])] /\ Advance(q, "tell")
        /\ UNCHANGED <<sends, mongo, cached, changed, disturbed>>
    BY <1>3 DEF TakePartner
  <2> HIDE DEF d
  <2>3. redis' \in [Documents -> InStore]
    BY <1>1, <2>1, <2>2
  <2> QED
    BY <1>1, <2>2, <2>3, AdvanceTypes DEF LinkedTypeOK, InStore, sends
<1>4. CASE PartnerMissing(q)
  BY <1>4, AdvanceTypes DEF PartnerMissing, LinkedTypeOK, sends, stores
<1>5. CASE TellByList(q)
  <2>1. \E at \in {"write", "failed"} : Advance(q, at)
    BY <1>5 DEF TellByList
  <2>2. cached' \in CachedLists /\ disturbed' \in BOOLEAN
    <3>1. \/ cached' = cached
          \/ cached' = WithStatus(cached, OwnerOf(update[q].doc), Partner(update[q].doc), update[q].asks)
      BY <1>5 DEF TellByList, WithStatus
    <3>2. disturbed' \in BOOLEAN
      BY <1>5 DEF TellByList, LinkedTypeOK
    <3> QED
      BY <1>1, <3>1, <3>2, CachedTypes
  <2>3. UNCHANGED <<sends, mongo, redis, changed>>
    BY <1>5 DEF TellByList
  <2> QED
    BY <2>1, <2>2, <2>3, AdvanceTypes DEF LinkedTypeOK, sends, CachedLists
<1>6. CASE PushPartner(q)
  <2>1. \E at \in {"panicked", "failed"} : Advance(q, at)
    BY <1>6 DEF PushPartner
  <2>2. UNCHANGED <<sends, stores, changed>> /\ disturbed' \in BOOLEAN
    BY <1>6 DEF PushPartner
  <2> QED
    BY <2>1, <2>2, AdvanceTypes DEF LinkedTypeOK, sends, stores
<1>7. CASE PushDeletion(q)
  <2>1. \E at \in {"panicked", "write"} : Advance(q, at)
    BY <1>7 DEF PushDeletion
  <2>2. \/ UNCHANGED cached
        \/ cached' = WithStatus(cached, OwnerOf(update[q].doc), update[q].doc, Removed)
    BY <1>7 DEF PushDeletion, WithStatus
  <2>3. cached' \in CachedLists
    BY <1>1, <2>2, CachedTypes
  <2>4. UNCHANGED <<sends, mongo, redis, changed, disturbed>>
    BY <1>7 DEF PushDeletion
  <2> QED
    BY <2>1, <2>3, <2>4, AdvanceTypes DEF LinkedTypeOK, sends, CachedLists
<1>8. CASE WriteOwn(q)
  <2> DEFINE d == update[q].doc
             New(s) == IF IsThere(s[d]) THEN [s EXCEPT ![d].status = update[q].asks] ELSE s
  <2>1. \A s \in [Documents -> InStore] : New(s) \in [Documents -> InStore]
    BY <1>1 DEF InStore
  <2>2. (mongo' = New(mongo) /\ UNCHANGED redis) \/ (redis' = New(redis) /\ UNCHANGED mongo)
    BY <1>8 DEF WriteOwn
  <2> HIDE DEF New
  <2>3. mongo' \in [Documents -> InStore] /\ redis' \in [Documents -> InStore]
    BY <1>1, <2>1, <2>2
  <2>4. Advance(q, "done") /\ UNCHANGED <<sends, cached, changed, disturbed>>
    BY <1>8 DEF WriteOwn
  <2> QED
    BY <2>3, <2>4, AdvanceTypes DEF LinkedTypeOK, sends, InStore
<1>9. CASE WriteOwnFails(q)
  <2>1. \E at \in {"done", "failed"} : Advance(q, at)
    BY <1>9 DEF WriteOwnFails
  <2>2. UNCHANGED <<sends, stores, changed>> /\ disturbed' \in BOOLEAN
    BY <1>9 DEF WriteOwnFails
  <2> QED
    BY <2>1, <2>2, AdvanceTypes DEF LinkedTypeOK, sends, stores
<1> QED
  BY <1>2, <1>3, <1>4, <1>5, <1>6, <1>7, <1>8, <1>9 DEF UpdateStep

\* Every step does.
LEMMA LinkedNextTypes == LinkedTypeOK /\ [LinkedNext]_linkedVars => LinkedTypeOK'
<1> SUFFICES ASSUME LinkedTypeOK, [LinkedNext]_linkedVars
             PROVE  LinkedTypeOK'
  OBVIOUS
<1>1. CASE ForgetDocument
  <2>1. NoDocument \in InStore
    BY EmptySeq DEF NoDocument, InStore
  <2>2. redis' \in [Documents -> InStore] /\ disturbed' \in BOOLEAN
    BY <1>1, <2>1 DEF ForgetDocument, LinkedTypeOK, InStore
  <2> QED
    BY <1>1, <2>2 DEF ForgetDocument, LinkedTypeOK, InStore, sends
<1>2. CASE Collect
  <2>1. cached' \in [Everyone -> [Documents -> States \cup {Nothing}]]
    BY <1>2 DEF Collect, LinkedTypeOK
  <2> QED
    BY <1>2, <2>1 DEF Collect, LinkedTypeOK, sends
<1>3. CASE UNCHANGED linkedVars
  BY <1>3 DEF LinkedTypeOK, linkedVars, sends, stores
<1> QED
  BY <1>1, <1>2, <1>3, SendTypes, RequestTypes DEF LinkedNext

\* How far the send request is tells what MongoDB has.
StoredInOrder ==
  /\ IsThere(mongo["linking"]) => style.persist /\ sending \in {"copied", "done", "failed"}
  /\ IsThere(mongo["original"]) => style.persist /\ sending = "done"
  /\ style.persist /\ sending \in {"copied", "done"} => IsThere(mongo["linking"])
  /\ style.persist /\ sending = "done" => IsThere(mongo["original"])

\* Whoever was not served is in both documents, and the copy of a list without
\* doubles has just those.
TargetsFit ==
  /\ \A d \in Documents : Wanting \subseteq Range(target[d])
  /\ IsInjective(list) =>
       target["linking"] = IF Cardinality(served) > 1 THEN Kept(list, Wanting) ELSE list

\* What a store has of a document has the target that the send request left.
FromSend(c, d) ==
  IF IsThere(c) THEN sending \notin {"new", "panicked"} /\ c.target = target[d] ELSE c = NoDocument

TargetsAgree ==
  /\ sending = "new" => served = {} /\ target = [d \in Documents |-> list]
  /\ sending # "panicked" => TargetsFit
  /\ \A d \in Documents : FromSend(mongo[d], d) /\ FromSend(redis[d], d)

\* The removal leaves the targets as they should be.
LEMMA RedirectFits ==
  ASSUME LinkedTypeOK, RedirectCopy
  PROVE  /\ sending' # "panicked" => TargetsFit'
         /\ sending' = "panicked" => ~IsInjective(list)
<1>1. PICK connected \in SUBSET Range(list) :
        /\ served' = connected
        /\ sending' = IF Redirected(list, connected).panic THEN "panicked" ELSE "told"
        /\ target' = [d \in Documents |-> IF d = "linking" THEN Elements(Redirected(list, connected))
                                          ELSE Redirected(list, connected).array]
        /\ list' = list
  BY DEF RedirectCopy
<1> DEFINE s == Redirected(list, connected)
           W == Range(list) \ connected
           n == Len(list)
<1>2. list \in Seq(Everyone) /\ n \in Nat
  BY ListOf, LenProperties DEF LinkedTypeOK
<1>3. s \in Slices(n, Everyone) /\ Has(s, W)
  BY <1>2, OthersLeft
<1>4. IsInjective(list) => /\ s.panic = FALSE
                           /\ Elements(s) = IF Cardinality(connected) > 1 THEN Kept(list, W) ELSE list
  BY <1>2, JustTheOthersLeft
<1>5. target' = [d \in Documents |-> IF d = "linking" THEN Elements(s) ELSE s.array]
      /\ Wanting' = W
  BY <1>1 DEF Wanting
<1> HIDE DEF s, W, n
<1>6. /\ s.array \in [1 .. n -> Everyone] /\ s.len \in 0 .. n
      /\ Elements(s) \in Seq(Everyone) /\ Len(Elements(s)) = s.len
      /\ \A i \in 1 .. s.len : Elements(s)[i] = s.array[i]
  BY <1>2, <1>3, ElementsOf
<1>7. W \subseteq Range(s.array) /\ W \subseteq Range(Elements(s))
  <2>1. ASSUME NEW u \in W
        PROVE  u \in Range(s.array) /\ u \in Range(Elements(s))
    <3>1. PICK i \in 1 .. s.len : s.array[i] = u
      BY <1>3 DEF Has
    <3>2. i \in DOMAIN s.array /\ i \in DOMAIN Elements(s) /\ Elements(s)[i] = u
      BY <1>2, <1>6, <3>1
    <3> QED
      BY <3>1, <3>2 DEF Range
  <2> QED
    BY <2>1
<1>8. TargetsFit'
  <2>1. target'["linking"] = Elements(s) /\ target'["original"] = s.array
    BY <1>5 DEF Documents
  <2>2. \A d \in Documents : Wanting' \subseteq Range(target'[d])
    BY <1>5, <1>7, <2>1 DEF Documents
  <2>3. IsInjective(list') => target'["linking"] = IF Cardinality(served') > 1
                                                   THEN Kept(list', Wanting') ELSE list'
    BY <1>1, <1>4, <1>5, <2>1
  <2> QED
    BY <2>2, <2>3 DEF TargetsFit
<1>9. sending' = "panicked" => ~IsInjective(list)
  BY <1>1, <1>4 DEF s
<1> QED
  BY <1>8, <1>9

\* Every step keeps the targets as the send request left them.
LEMMA TargetsStay ==
  ASSUME LinkedTypeOK, StoredInOrder, TargetsAgree, [LinkedNext]_linkedVars
  PROVE  TargetsAgree'
<1> USE DEF TargetsAgree
<1>1. ASSUME UNCHANGED <<sending, list, served, target>>,
             \A d \in Documents : /\ FromSend(mongo'[d], d) /\ FromSend(redis'[d], d)
      PROVE  TargetsAgree'
  BY <1>1 DEF TargetsFit, FromSend, Wanting
<1>2. CASE NobodyListed \/ CacheCopy
  <2>1. /\ UNCHANGED <<list, served, target, mongo, redis>> /\ sending = "new" /\ sending' # "new"
        /\ \A d \in Documents : ~IsThere(mongo[d]) /\ ~IsThere(redis[d])
    BY <1>2 DEF NobodyListed, CacheCopy, FromSend, stores
  <2> QED
    BY <2>1 DEF TargetsFit, FromSend, Wanting
<1>3. CASE RedirectCopy
  <2>1. /\ UNCHANGED <<mongo, redis>> /\ sending = "new" /\ sending' # "new"
        /\ \A d \in Documents : ~IsThere(mongo[d]) /\ ~IsThere(redis[d])
    BY <1>3 DEF RedirectCopy, FromSend, stores
  <2>2. sending' # "panicked" => TargetsFit'
    BY <1>3, RedirectFits
  <2> QED
    BY <2>1, <2>2 DEF FromSend
<1>4. ASSUME NEW at \in {"told", "copied"}, InsertDocument(DocumentAt(at), at)
      PROVE  TargetsAgree'
  <2> DEFINE e == DocumentAt(at)
  <2>1. /\ UNCHANGED <<list, served, target>> /\ sending' \in {"copied", "done", "failed"}
        /\ sending \in {"told", "copied"} /\ e \in Documents
        /\ NewDocument(e).target = target[e]
        /\ \/ mongo' = mongo \/ mongo' = [mongo EXCEPT ![e] = NewDocument(e)]
        /\ \/ redis' = redis \/ redis' = [redis EXCEPT ![e] = NewDocument(e)]
    BY <1>4 DEF InsertDocument, InsertNew, AfterInsert, DocumentAt, Documents, NewDocument, stores
  <2>2. IsThere(NewDocument(e))
    BY LinkedAssumption DEF NewDocument, IsThere
  <2> HIDE DEF e
  <2>3. mongo \in [Documents -> InStore] /\ redis \in [Documents -> InStore]
    BY DEF LinkedTypeOK, InStore
  <2>4. \A d \in Documents : /\ mongo'[d] \in {mongo[d], NewDocument(e)} /\ (mongo'[d] = mongo[d] \/ d = e)
                             /\ redis'[d] \in {redis[d], NewDocument(e)} /\ (redis'[d] = redis[d] \/ d = e)
    BY <2>1, <2>3
  <2>5. TargetsFit'
    BY <2>1 DEF TargetsFit, Wanting
  <2>6. sending' \notin {"new", "panicked"}
    BY <2>1
  <2>7. \A d \in Documents : (FromSend(mongo[d], d) /\ FromSend(redis[d], d))'
    BY <2>1, <2>2, <2>4, <2>6 DEF FromSend
  <2> QED
    BY <2>5, <2>6, <2>7
<1>5. CASE ForgetDocument
  <2>1. UNCHANGED <<sending, list, served, target, mongo>>
        /\ \A d \in Documents : redis'[d] \in {redis[d], NoDocument}
    BY <1>5 DEF ForgetDocument, sends, LinkedTypeOK
  <2>2. ~IsThere(NoDocument)
    BY DEF IsThere, NoDocument
  <2> QED
    BY <1>1, <2>1, <2>2 DEF FromSend
<1>6. CASE Collect
  BY <1>1, <1>6 DEF Collect, sends
<1>7. ASSUME NEW q \in Updates, UpdateStep(q)
      PROVE  TargetsAgree'
  <2>1. UNCHANGED <<sending, list, served, target>>
    BY <1>7 DEF UpdateStep, FindDocument, TakePartner, PartnerMissing, TellByList, PushPartner,
      PushDeletion, WriteOwn, WriteOwnFails, sends
  <2>2. /\ mongo \in [Documents -> InStore] /\ redis \in [Documents -> InStore]
        /\ update[q].doc \in Documents /\ Partner(update[q].doc) \in Documents
        /\ update[q].asks \in States /\ Nothing \notin States
    BY Partners, LinkedAssumption DEF LinkedTypeOK, InStore, Documents
  <2>3. CASE TakePartner(q)
    <3> DEFINE d == Partner(update[q].doc)
    <3>1. ForReaders(q, mongo[d]).target = mongo[d].target /\ IsThere(ForReaders(q, mongo[d]))
      BY <2>2 DEF ForReaders, InStore, IsThere
    <3>2. redis' = [redis EXCEPT ![d] = ForReaders(q, mongo[d])] /\ mongo' = mongo /\ IsThere(mongo[d])
      BY <2>3 DEF TakePartner
    <3> HIDE DEF d
    <3>3. \A e \in Documents : redis'[e] = redis[e] \/ (e = d /\ redis'[e] = ForReaders(q, mongo[d]))
      BY <2>2, <3>2
    <3> QED
      BY <1>1, <2>1, <3>1, <3>2, <3>3 DEF FromSend
  <2>4. CASE WriteOwn(q)
    <3> DEFINE d == update[q].doc
               New(s) == IF IsThere(s[d]) THEN [s EXCEPT ![d].status = update[q].asks] ELSE s
    <3>1. (mongo' = New(mongo) /\ UNCHANGED redis) \/ (redis' = New(redis) /\ UNCHANGED mongo)
      BY <2>4 DEF WriteOwn
    <3>2. ASSUME NEW s \in [Documents -> InStore], NEW e \in Documents
          PROVE  New(s)[e].target = s[e].target /\ (IsThere(New(s)[e]) <=> IsThere(s[e]))
                 /\ (~IsThere(s[e]) => New(s)[e] = s[e])
      <4>1. CASE e = d /\ IsThere(s[d])
        <5>1. New(s)[e] = [s[d] EXCEPT !.status = update[q].asks]
          BY <2>2, <4>1
        <5> HIDE DEF New
        <5> QED
          BY <2>2, <4>1, <5>1 DEF InStore, IsThere
      <4>2. CASE ~(e = d /\ IsThere(s[d]))
        <5>1. New(s)[e] = s[e]
          BY <2>2, <4>2
        <5> HIDE DEF New
        <5> QED
          BY <5>1
      <4> QED
        BY <4>1, <4>2
    <3> HIDE DEF New
    <3>3. \A e \in Documents :
            /\ mongo'[e].target = mongo[e].target /\ (IsThere(mongo'[e]) <=> IsThere(mongo[e]))
            /\ redis'[e].target = redis[e].target /\ (IsThere(redis'[e]) <=> IsThere(redis[e]))
            /\ (~IsThere(mongo[e]) => mongo'[e] = mongo[e]) /\ (~IsThere(redis[e]) => redis'[e] = redis[e])
      BY <2>2, <3>1, <3>2
    <3> QED
      BY <1>1, <2>1, <3>3 DEF FromSend
  <2>5. CASE ~TakePartner(q) /\ ~WriteOwn(q)
    <3>1. UNCHANGED <<mongo, redis>>
      BY <1>7, <2>5 DEF UpdateStep, FindDocument, PartnerMissing, TellByList, PushPartner,
        PushDeletion, WriteOwnFails, stores
    <3> QED
      BY <1>1, <2>1, <3>1
  <2> QED
    BY <2>3, <2>4, <2>5
<1>8. CASE UNCHANGED linkedVars
  BY <1>1, <1>8 DEF linkedVars, sends, stores
<1> QED
  BY <1>2, <1>3, <1>4, <1>5, <1>6, <1>7, <1>8 DEF LinkedNext, Send

\* What a request that panicked had to redirect.
ToPush(q) ==
  IF update[q].kind = "delete" THEN update[q].target ELSE mongo[Partner(update[q].doc)].target

\* MongoDB does not lose a document, nor change the target of one.
LEMMA MongoKeeps ==
  ASSUME LinkedTypeOK, StoredInOrder, TargetsAgree, [LinkedNext]_linkedVars, NEW d \in Documents,
         IsThere(mongo[d])
  PROVE  mongo'[d].target = mongo[d].target
<1> USE DEF LinkedTypeOK
<1>1. CASE Send
  <2>1. CASE NobodyListed \/ CacheCopy \/ RedirectCopy
    BY <2>1 DEF NobodyListed, CacheCopy, RedirectCopy, stores
  <2>2. ASSUME NEW at \in {"told", "copied"}, InsertDocument(DocumentAt(at), at)
        PROVE  mongo'[d].target = mongo[d].target
    <3>1. CASE d = DocumentAt(at)
      <4>1. style.persist => ~IsThere(mongo[d])
        BY <2>2, <3>1 DEF StoredInOrder, DocumentAt, InsertDocument
      <4>2. style.persist
        BY DEF StoredInOrder, Documents
      <4> QED
        BY <4>1, <4>2
    <3>2. CASE d # DocumentAt(at)
      BY <2>2, <3>2 DEF InsertDocument, InsertNew, stores
    <3> QED
      BY <3>1, <3>2
  <2> QED
    BY <1>1, <2>1, <2>2 DEF Send
<1>2. CASE ForgetDocument \/ Collect \/ UNCHANGED linkedVars
  BY <1>2 DEF ForgetDocument, Collect, linkedVars, stores
<1>3. ASSUME NEW q \in Updates, UpdateStep(q)
      PROVE  mongo'[d].target = mongo[d].target
  <2>1. CASE WriteOwn(q)
    <3> DEFINE e == update[q].doc
    <3>1. mongo' = mongo \/ mongo' = [mongo EXCEPT ![e].status = update[q].asks]
      BY <2>1 DEF WriteOwn
    <3>2. mongo \in [Documents -> InStore] /\ mongo[d] \in InStore
      BY DEF InStore
    <3> HIDE DEF e
    <3>3. CASE mongo' = [mongo EXCEPT ![e].status = update[q].asks]
      <4>1. mongo'[d] = mongo[d] \/ mongo'[d] = [mongo[d] EXCEPT !.status = update[q].asks]
        BY <3>2, <3>3
      <4> QED
        BY <3>2, <4>1 DEF InStore
    <3> QED
      BY <3>1, <3>3
  <2>2. CASE ~WriteOwn(q)
    BY <1>3, <2>2 DEF UpdateStep, FindDocument, TakePartner, PartnerMissing, TellByList, PushPartner,
        PushDeletion, WriteOwnFails, stores
  <2> QED
    BY <2>1, <2>2
<1> QED
  BY <1>1, <1>2, <1>3 DEF LinkedNext

\* A request that panicks has a list with a double, and stays as it is.
LEMMA RequestPanics ==
  ASSUME LinkedTypeOK, NEW p \in Updates, UpdateStep(p), NEW q \in Updates,
         update'[q].at = "panicked"
  PROVE  \/ update[q].at = "panicked" /\ update'[q] = update[q]
         \/ ~IsInjective(ToPush(q)) /\ update'[q].kind = update[q].kind
            /\ update'[q].doc = update[q].doc /\ update'[q].target = update[q].target
<1>1. CASE q # p
  <2>1. update'[q] = update[q]
    BY <1>1 DEF UpdateStep, FindDocument, TakePartner, PartnerMissing, TellByList,
      PushPartner, PushDeletion, WriteOwn, WriteOwnFails, Advance, LinkedTypeOK
  <2> QED
    BY <2>1
<1>2. CASE q = p
  <2>1. \A at : Advance(q, at) => /\ update'[q].at = at /\ update'[q].kind = update[q].kind
                                  /\ update'[q].doc = update[q].doc
                                  /\ update'[q].target = update[q].target
    BY DEF Advance, LinkedTypeOK
  <2>2. CASE PushPartner(q)
    <3> DEFINE l == mongo[Partner(update[q].doc)].target
    <3>1. PICK connected \in SUBSET Range(l) :
            Advance(q, IF Redirected(l, connected).panic THEN "panicked" ELSE "failed")
      BY <2>2 DEF PushPartner
    <3>2. l \in Seq(Everyone)
      BY Partners DEF LinkedTypeOK, Documents
    <3>3. l = ToPush(q)
      BY <2>2 DEF PushPartner, ToPush
    <3> HIDE DEF l
    <3>4. IsInjective(l) => Redirected(l, connected).panic = FALSE
      BY <3>2, JustTheOthersLeft
    <3>5. ~IsInjective(l)
      BY <2>1, <3>1, <3>4
    <3> QED
      BY <2>1, <3>1, <3>3, <3>5
  <2>3. CASE PushDeletion(q)
    <3> DEFINE l == update[q].target
    <3>1. PICK connected \in SUBSET Range(l) :
            Advance(q, IF Redirected(l, connected).panic THEN "panicked" ELSE "write")
      BY <2>3 DEF PushDeletion
    <3>2. l \in Seq(Everyone)
      BY DEF LinkedTypeOK
    <3>3. l = ToPush(q)
      BY <2>3 DEF PushDeletion, ToPush
    <3> HIDE DEF l
    <3>4. IsInjective(l) => Redirected(l, connected).panic = FALSE
      BY <3>2, JustTheOthersLeft
    <3>5. ~IsInjective(l)
      BY <2>1, <3>1, <3>4
    <3> QED
      BY <2>1, <3>1, <3>3, <3>5
  <2>4. CASE TakePartner(q) \/ PartnerMissing(q) \/ TellByList(q) \/ WriteOwn(q) \/ WriteOwnFails(q)
    <3>1. \E at \in {"tell", "failed", "write", "done"} : Advance(q, at)
      BY <2>4 DEF TakePartner, PartnerMissing, TellByList, WriteOwn, WriteOwnFails
    <3> QED
      BY <2>1, <3>1
  <2>5. ASSUME NEW d \in Documents, NEW kind \in {"update", "delete", "bulk"}, NEW asks \in States,
               FindDocument(q, d, kind, asks)
        PROVE  FALSE
    <3> DEFINE r == [at |-> FirstStep(kind), doc |-> d, kind |-> kind, asks |-> asks,
                     target |-> (IF kind = "bulk" THEN mongo[d] ELSE Visible(d)).target]
    <3>1. update' = [update EXCEPT ![q] = r] /\ r.at = FirstStep(kind)
      BY <2>5 DEF FindDocument
    <3> HIDE DEF r
    <3>2. update'[q] = r
      BY <3>1 DEF LinkedTypeOK
    <3>3. FirstStep(kind) # "panicked"
      BY DEF FirstStep
    <3> QED
      BY <3>1, <3>2, <3>3
  <2> QED
    BY <1>2, <2>2, <2>3, <2>4, <2>5 DEF UpdateStep
<1> QED
  BY <1>1, <1>2

\* Every step keeps what is said of those that panicked.
LEMMA PanicStays ==
  ASSUME LinkedTypeOK, StoredInOrder, TargetsAgree, PanicNeedsDouble, [LinkedNext]_linkedVars
  PROVE  PanicNeedsDouble'
<1>1. ASSUME sending' = "panicked"
      PROVE  list' = <<>> \/ ~IsInjective(list')
  <2>1. CASE NobodyListed
    BY <2>1 DEF NobodyListed
  <2>2. CASE RedirectCopy
    BY <1>1, <2>2, RedirectFits DEF RedirectCopy
  <2>3. CASE CacheCopy
    BY <1>1, <2>3 DEF CacheCopy
  <2>4. ASSUME NEW at \in {"told", "copied"}, InsertDocument(DocumentAt(at), at)
        PROVE  FALSE
    BY <1>1, <2>4 DEF InsertDocument, AfterInsert
  <2>5. CASE UNCHANGED sends
    BY <1>1, <2>5 DEF PanicNeedsDouble, sends
  <2>6. CASE ForgetDocument \/ Collect \/ (\E q \in Updates : UpdateStep(q)) \/ UNCHANGED linkedVars
    <3>1. UNCHANGED sends
      BY <2>6 DEF ForgetDocument, Collect, linkedVars, UpdateStep, FindDocument, TakePartner,
        PartnerMissing, TellByList, PushPartner, PushDeletion, WriteOwn, WriteOwnFails
    <3> QED
      BY <2>5, <3>1
  <2> QED
    BY <2>1, <2>2, <2>3, <2>4, <2>6 DEF LinkedNext, Send
<1>2. ASSUME NEW q \in Updates, update'[q].at = "panicked"
      PROVE  ~IsInjective(ToPush(q)')
  <2>1. /\ ~IsInjective(ToPush(q)) /\ update'[q].kind = update[q].kind
        /\ update'[q].doc = update[q].doc /\ update'[q].target = update[q].target
    <3>1. update[q].at = "panicked" => ~IsInjective(ToPush(q))
      BY DEF PanicNeedsDouble, ToPush
    <3>2. CASE \E p \in Updates : UpdateStep(p)
      BY <1>2, <3>1, <3>2, RequestPanics
    <3>3. CASE UNCHANGED update
      BY <1>2, <3>1, <3>3
    <3>4. CASE Send \/ ForgetDocument \/ Collect \/ UNCHANGED linkedVars
      <4>1. UNCHANGED update
        BY <3>4 DEF Send, NobodyListed, CacheCopy, RedirectCopy, InsertDocument, ForgetDocument,
          Collect, linkedVars
      <4> QED
        BY <3>3, <4>1
    <3> QED
      BY <3>2, <3>4 DEF LinkedNext
  <2>2. CASE update[q].kind = "delete"
    BY <2>1, <2>2 DEF ToPush
  <2>3. CASE update[q].kind # "delete"
    <3> DEFINE d == Partner(update[q].doc)
    <3>1. d \in Documents
      BY Partners DEF LinkedTypeOK, Documents
    <3>2. ToPush(q) = mongo[d].target /\ ToPush(q)' = mongo'[d].target
      BY <2>1, <2>3 DEF ToPush
    <3> HIDE DEF d
    <3>3. IsThere(mongo[d])
      <4>1. IsInjective(<<>>)
        BY DEF IsInjective
      <4>2. ~IsThere(mongo[d]) => mongo[d].target = <<>>
        BY <3>1 DEF TargetsAgree, FromSend, NoDocument
      <4> QED
        BY <2>1, <3>2, <4>1, <4>2
    <3>4. mongo'[d].target = mongo[d].target
      BY <3>1, <3>3, MongoKeeps
    <3> QED
      BY <2>1, <3>2, <3>4
  <2> QED
    BY <2>2, <2>3
<1> QED
  BY <1>1, <1>2 DEF PanicNeedsDouble, ToPush

-----------------------------------------------------------------------------
(* Linked messages: the statuses that the readers see *)

\* What is kept of a document has a status and a list of targets.
DocumentShape(c) ==
  /\ c = [status |-> c.status, target |-> c.target]
  /\ c.status \in States \cup {Nothing}

RequestShape(r) ==
  /\ r = [at |-> r.at, doc |-> r.doc, kind |-> r.kind, asks |-> r.asks, target |-> r.target]
  /\ r.doc \in Documents /\ r.asks \in States

Shapes ==
  /\ style \in Styles
  /\ mongo = [d \in Documents |-> mongo[d]] /\ redis = [d \in Documents |-> redis[d]]
  /\ \A d \in Documents : DocumentShape(mongo[d]) /\ DocumentShape(redis[d])
  /\ update = [q \in Updates |-> update[q]]
  /\ \A q \in Updates : RequestShape(update[q])

\* The types say as much.
LEMMA TypesShape == LinkedTypeOK => Shapes
<1> SUFFICES ASSUME LinkedTypeOK
             PROVE  Shapes
  OBVIOUS
<1>1. mongo \in [Documents -> InStore] /\ redis \in [Documents -> InStore]
  BY DEF LinkedTypeOK, InStore
<1>2. \A c \in InStore : DocumentShape(c)
  BY DEF InStore, DocumentShape
<1>3. \A d \in Documents : DocumentShape(mongo[d]) /\ DocumentShape(redis[d])
  BY <1>1, <1>2
<1>4. /\ update = [q \in Updates |-> update[q]]
      /\ \A q \in Updates : RequestShape(update[q])
  BY DEF LinkedTypeOK, RequestShape
<1> QED
  BY <1>1, <1>3, <1>4 DEF Shapes, LinkedTypeOK

Telling(q) == update[q].at \in {"tell", "write"}

\* As long as only x is updated, one update after the other: the status for the
\* readers of the other document is the one that is being written, or x's.
OnlyOf(x) ==
  /\ ~IsThere(redis[x])
  /\ \A q \in Updates : InFlight(q) =>
       /\ update[q].doc = x /\ IsThere(mongo[x])
       /\ \A r \in Updates : InFlight(r) => r = q
  /\ IsThere(redis[Partner(x)]) => IsThere(mongo[x]) /\ IsThere(mongo[Partner(x)])
  /\ \A q \in Updates : Telling(q) =>
       IsThere(redis[Partner(x)]) /\ redis[Partner(x)].status = update[q].asks
  /\ IsThere(mongo[x]) /\ IsThere(mongo[Partner(x)]) /\ (\A q \in Updates : ~Telling(q))
       => Visible(Partner(x)).status = mongo[x].status
  /\ \A d \in Documents : IsThere(mongo[d]) /\ ~IsThere(mongo[Partner(d)])
       => mongo[d].status = FirstState

Pulled == style = [mode |-> "pull", persist |-> TRUE]

OneWay ==
  Pulled /\ ~disturbed => \A x \in Documents : changed \subseteq {x} => OnlyOf(x)

\* What is stored of a pair, and what each request has still to do with it.
LinkedInv == LinkedTypeOK /\ StoredInOrder /\ TargetsAgree /\ PanicNeedsDouble /\ OneWay

\* At the start nothing is stored and nobody has asked for anything.
LEMMA LinkedStart == LinkedInit => LinkedInv
<1> SUFFICES ASSUME LinkedInit PROVE LinkedInv
  OBVIOUS
<1>1. LinkedTypeOK
  BY LinkedInitTypes
<1>2. /\ sending = "new" /\ served = {} /\ target = [d \in Documents |-> list]
      /\ \A d \in Documents : mongo[d] = NoDocument /\ redis[d] = NoDocument
      /\ \A q \in Updates : update[q].at = "new"
      /\ ~IsThere(NoDocument)
  BY DEF LinkedInit, Unasked, IsThere, NoDocument
<1>3. StoredInOrder
  BY <1>2 DEF StoredInOrder, Documents
<1>4. TargetsAgree
  <2>1. Cardinality(served) = 0 /\ Wanting = Range(list)
    BY <1>2, FS_EmptySet DEF Wanting
  <2>2. TargetsFit
    BY <1>2, <2>1 DEF TargetsFit, Documents
  <2> QED
    BY <1>2, <2>2 DEF TargetsAgree, FromSend
<1>5. PanicNeedsDouble
  BY <1>2 DEF PanicNeedsDouble
<1>6. OneWay
  BY <1>2, Partners DEF OneWay, OnlyOf, Documents, InFlight, Telling
<1> QED
  BY <1>1, <1>3, <1>4, <1>5, <1>6 DEF LinkedInv

\* A request changes its place and keeps the rest.
LEMMA AdvanceKeeps ==
  ASSUME Shapes, NEW q \in Updates, NEW at, Advance(q, at)
  PROVE  /\ update' = [r \in Updates |-> update'[r]]
         /\ \A r \in Updates : RequestShape(update'[r])
         /\ update'[q].at = at
         /\ update'[q].doc = update[q].doc /\ update'[q].asks = update[q].asks
         /\ \A r \in Updates \ {q} : update'[r] = update[r]
  BY DEF Shapes, RequestShape, Advance

\* Every step keeps what MongoDB has in step with the send request.
LEMMA OrderStays ==
  ASSUME Shapes, StoredInOrder, [LinkedNext]_linkedVars
  PROVE  StoredInOrder'
<1> USE LinkedAssumption
<1>1. CASE UNCHANGED linkedVars
  BY <1>1 DEF StoredInOrder, IsThere, linkedVars, sends, stores
<1>2. CASE Send
  <2>1. CASE NobodyListed \/ CacheCopy \/ RedirectCopy
    BY <2>1 DEF NobodyListed, CacheCopy, RedirectCopy, StoredInOrder, IsThere, stores
  <2>2. ASSUME NEW at \in {"told", "copied"}, InsertDocument(DocumentAt(at), at)
        PROVE  StoredInOrder'
    BY <2>2 DEF InsertDocument, InsertNew, NewDocument, DocumentAt, AfterInsert, Documents, Shapes,
      StoredInOrder, IsThere, stores
  <2> QED
    BY <1>2, <2>1, <2>2 DEF Send
<1>3. CASE ForgetDocument \/ Collect
  BY <1>3 DEF ForgetDocument, Collect, StoredInOrder, IsThere, sends
<1>4. ASSUME NEW q \in Updates, UpdateStep(q) PROVE StoredInOrder'
  <2>1. UNCHANGED sends
    BY <1>4 DEF UpdateStep, FindDocument, TakePartner, PartnerMissing, TellByList, PushPartner,
      PushDeletion, WriteOwn, WriteOwnFails
  <2>2. \A d \in Documents : IsThere(mongo'[d]) <=> IsThere(mongo[d])
    <3>1. CASE WriteOwn(q)
      <4>1. update[q].doc \in Documents /\ update[q].asks \in States
        BY DEF Shapes, RequestShape
      <4> DEFINE e == update[q].doc
                 new == IF IsThere(mongo[e]) THEN [mongo EXCEPT ![e].status = update[q].asks] ELSE mongo
      <4>2. mongo' = new \/ mongo' = mongo
        BY <3>1 DEF WriteOwn
      <4>3. \A d \in Documents : IsThere(new[d]) <=> IsThere(mongo[d])
        <5>1. CASE IsThere(mongo[e])
          <6>1. \A d \in Documents : new[d] = IF d = e THEN [mongo[e] EXCEPT !.status = update[q].asks]
                                              ELSE mongo[d]
            BY <4>1, <5>1 DEF Shapes
          <6>2. [mongo[e] EXCEPT !.status = update[q].asks].status = update[q].asks
            BY <4>1 DEF Shapes, DocumentShape
          <6> HIDE DEF new
          <6> QED
            BY <4>1, <5>1, <6>1, <6>2 DEF IsThere
        <5>2. CASE ~IsThere(mongo[e])
          BY <5>2
        <5> QED
          BY <5>1, <5>2
      <4> HIDE DEF new
      <4> QED
        BY <4>2, <4>3
    <3>2. CASE ~WriteOwn(q)
      BY <1>4, <3>2 DEF UpdateStep, FindDocument, TakePartner, PartnerMissing, TellByList,
        PushPartner, PushDeletion, WriteOwnFails, stores
    <3> QED
      BY <3>1, <3>2
  <2> QED
    BY <2>1, <2>2 DEF StoredInOrder, sends, Documents
<1> QED
  BY <1>1, <1>2, <1>3, <1>4 DEF LinkedNext

\* A document and its partner are the two documents there are.
LEMMA Others ==
  ASSUME NEW x \in Documents
  PROVE  /\ Partner(x) \in Documents /\ Partner(x) # x /\ Partner(Partner(x)) = x
         /\ \A d \in Documents : d = x \/ d = Partner(x)
  BY Partners DEF Documents

\* The step of a request q that is under way is one of x, and the only one.
LEMMA OnlyRequest ==
  ASSUME NEW x \in Documents, OnlyOf(x), NEW q \in Updates, InFlight(q)
  PROVE  /\ update[q].doc = x /\ IsThere(mongo[x])
         /\ \A r \in Updates : InFlight(r) => r = q
  BY DEF OnlyOf

\* A step of the send request or of the environment, as long as Redis forgets nothing.
LEMMA OthersKeepOnlyOf ==
  ASSUME Shapes, StoredInOrder, Pulled, NEW x \in Documents, OnlyOf(x), Send \/ Collect
  PROVE  OnlyOf(x)'
<1> USE LinkedAssumption
<1>1. CASE NobodyListed \/ CacheCopy \/ Collect
  BY <1>1 DEF NobodyListed, CacheCopy, Collect, OnlyOf, InFlight, Telling, Visible, IsThere, sends, stores
<1>2. CASE RedirectCopy
  BY <1>2 DEF RedirectCopy, Pulled
<1>3. ASSUME NEW at \in {"told", "copied"}, InsertDocument(DocumentAt(at), at), sending' # "failed"
      PROVE  OnlyOf(x)'
  <2> DEFINE e == DocumentAt(at)
  <2>1. style.persist /\ e \in Documents /\ ~IsThere(mongo[e])
    BY <1>3 DEF DocumentAt, Documents, StoredInOrder, InsertDocument, Pulled
  <2>2. /\ mongo' = [mongo EXCEPT ![e] = NewDocument(e)]
        /\ redis' = redis /\ update' = update
    BY <1>3, <2>1 DEF InsertDocument, InsertNew, stores
  <2>3. /\ mongo'[e].status = FirstState
        /\ \A d \in Documents \ {e} : mongo'[d] = mongo[d]
    BY <2>1, <2>2 DEF NewDocument, Shapes
  <2>4. ~IsThere(redis[Partner(x)]) /\ ~IsThere(redis[x])
    BY <2>1, Others DEF OnlyOf
  <2>5. \A q \in Updates : ~Telling(q)
    BY <2>4 DEF OnlyOf
  <2>6. \A d \in Documents : IsThere(mongo'[d]) => mongo'[d].status = FirstState
    BY <2>1, <2>3, Others DEF OnlyOf
  <2>7. IsThere(mongo[x]) => IsThere(mongo'[x])
    BY <2>1, <2>3
  <2> HIDE DEF e
  <2> QED
    BY <2>2, <2>4, <2>5, <2>6, <2>7, Others DEF OnlyOf, InFlight, Telling, Visible, IsThere
<1>4. ASSUME NEW at \in {"told", "copied"}, InsertDocument(DocumentAt(at), at), sending' = "failed"
      PROVE  OnlyOf(x)'
  BY <1>4 DEF InsertDocument, AfterInsert, OnlyOf, InFlight, Telling, Visible, IsThere, stores
<1> QED
  BY <1>1, <1>2, <1>3, <1>4 DEF Send

\* A request that is made, or that goes on, without being disturbed.
LEMMA RequestsKeepOnlyOf ==
  ASSUME Shapes, Pulled, NEW x \in Documents, OnlyOf(x), changed' \subseteq {x}, ~disturbed',
         NEW q \in Updates, UpdateStep(q)
  PROVE  OnlyOf(x)'
<1> USE LinkedAssumption
<1> DEFINE p == Partner(x)
<1>0. p \in Documents /\ p # x
  BY Others
<1>1. ASSUME NEW d \in Documents, NEW kind \in {"update", "delete", "bulk"}, NEW asks \in States,
             FindDocument(q, d, kind, asks)
      PROVE  OnlyOf(x)'
  <2>1. kind # "bulk" /\ \A r \in Updates : ~InFlight(r)
    BY <1>1 DEF FindDocument
  <2>2. d = x
    BY <1>1 DEF FindDocument
  <2>3. IsThere(mongo[x])
    BY <1>1, <2>1, <2>2 DEF FindDocument, Visible, OnlyOf
  <2>4. FirstStep(kind) = "partner"
    BY <2>1 DEF FirstStep, Pulled
  <2>5. /\ update'[q].at = "partner" /\ update'[q].doc = x
        /\ \A r \in Updates \ {q} : update'[r] = update[r]
        /\ mongo' = mongo /\ redis' = redis
    BY <1>1, <2>2, <2>4 DEF FindDocument, Shapes, stores
  <2>6. \A r \in Updates : InFlight(r)' => r = q
    BY <2>1, <2>5 DEF InFlight
  <2>7. \A r \in Updates : ~Telling(r) /\ ~Telling(r)'
    BY <2>1, <2>5 DEF InFlight, Telling
  <2> QED
    BY <2>3, <2>5, <2>6, <2>7 DEF OnlyOf, Visible, IsThere
<1>2. CASE TakePartner(q)
  <2>1. InFlight(q)
    BY <1>2 DEF TakePartner, InFlight
  <2>2. update[q].doc = x /\ IsThere(mongo[x]) /\ \A r \in Updates : InFlight(r) => r = q
    BY <2>1, OnlyRequest
  <2>3. IsThere(mongo[p]) /\ mongo' = mongo /\ Advance(q, "tell")
    BY <1>2, <2>2 DEF TakePartner
  <2>4. redis'[p].status = update[q].asks /\ redis'[x] = redis[x]
    BY <1>0, <1>2, <2>2 DEF TakePartner, ForReaders, Shapes, DocumentShape
  <2>5. IsThere(redis'[p])
    BY <2>4 DEF Shapes, RequestShape, IsThere
  <2>6. /\ update'[q].at = "tell" /\ update'[q].doc = x /\ update'[q].asks = update[q].asks
        /\ \A r \in Updates \ {q} : update'[r] = update[r]
    BY <2>2, <2>3, AdvanceKeeps
  <2>7. \A r \in Updates : InFlight(r)' => r = q
    BY <2>2, <2>6 DEF InFlight
  <2>8. Telling(q)' /\ \A r \in Updates : Telling(r)' => r = q
    BY <2>6, <2>7 DEF InFlight, Telling
  <2> QED
    BY <2>2, <2>3, <2>4, <2>5, <2>6, <2>7, <2>8 DEF OnlyOf, IsThere
<1>3. CASE TellByList(q)
  <2>1. Advance(q, "write") /\ mongo' = mongo /\ redis' = redis /\ Telling(q)
    BY <1>3 DEF TellByList, Telling
  <2>2. /\ update'[q].at = "write" /\ update'[q].doc = update[q].doc
        /\ update'[q].asks = update[q].asks
        /\ \A r \in Updates \ {q} : update'[r] = update[r]
    BY <2>1, AdvanceKeeps
  <2>3. \A r \in Updates : (InFlight(r)' <=> InFlight(r)) /\ (Telling(r)' <=> Telling(r))
    BY <2>1, <2>2 DEF InFlight, Telling
  <2> QED
    BY <2>1, <2>2, <2>3 DEF OnlyOf, Visible, IsThere
<1>4. CASE WriteOwn(q)
  <2>1. InFlight(q) /\ Telling(q)
    BY <1>4 DEF WriteOwn, InFlight, Telling
  <2>2. /\ update[q].doc = x /\ IsThere(mongo[x]) /\ \A r \in Updates : InFlight(r) => r = q
        /\ IsThere(redis[p]) /\ redis[p].status = update[q].asks
        /\ IsThere(mongo[p])
    BY <2>1, OnlyRequest DEF OnlyOf
  <2>3. /\ mongo' = [mongo EXCEPT ![x].status = update[q].asks]
        /\ redis' = redis /\ Advance(q, "done")
    BY <1>4, <2>2 DEF WriteOwn, Pulled
  <2>4. update[q].asks \in States
    BY DEF Shapes, RequestShape
  <2>5. /\ mongo'[x].status = update[q].asks /\ IsThere(mongo'[x])
        /\ mongo'[p] = mongo[p]
    BY <1>0, <2>2, <2>3, <2>4 DEF Shapes, DocumentShape, IsThere
  <2>6. /\ update'[q].at = "done"
        /\ \A r \in Updates \ {q} : update'[r] = update[r]
    BY <2>3, AdvanceKeeps
  <2>7. \A r \in Updates : ~InFlight(r)' /\ ~Telling(r)'
    BY <2>2, <2>6 DEF InFlight, Telling
  <2> QED
    BY <1>0, <2>2, <2>3, <2>5, <2>7, Others DEF OnlyOf, Visible, IsThere
<1>5. CASE PartnerMissing(q) \/ WriteOwnFails(q) \/ PushPartner(q) \/ PushDeletion(q)
  BY <1>5 DEF PartnerMissing, WriteOwnFails, PushPartner, PushDeletion, Pulled
<1> QED
  BY <1>1, <1>2, <1>3, <1>4, <1>5 DEF UpdateStep

\* No step undisturbs the pair or takes back a change, and the class stays.
LEMMA HistoryGrows ==
  ASSUME changed \subseteq Documents, [LinkedNext]_linkedVars
  PROVE  /\ style' = style /\ changed \subseteq changed' /\ changed' \subseteq Documents
         /\ disturbed => disturbed'
<1>1. CASE UNCHANGED linkedVars
  BY <1>1 DEF linkedVars, sends
<1>2. CASE Send
  BY <1>2 DEF Send, NobodyListed, CacheCopy, RedirectCopy, InsertDocument
<1>3. CASE ForgetDocument \/ Collect
  BY <1>3 DEF ForgetDocument, Collect, sends
<1>4. ASSUME NEW q \in Updates, UpdateStep(q)
      PROVE  /\ style' = style /\ changed \subseteq changed' /\ changed' \subseteq Documents
             /\ disturbed => disturbed'
  <2> DEFINE Grows == /\ style' = style /\ changed \subseteq changed'
                      /\ changed' \subseteq Documents /\ (disturbed => disturbed')
  <2>1. ASSUME NEW d \in Documents, NEW kind \in {"update", "delete", "bulk"}, NEW asks \in States,
               FindDocument(q, d, kind, asks)
        PROVE  Grows
    <3>1. style' = style /\ changed' = changed \cup {d} /\ (disturbed => disturbed')
      BY <2>1 DEF FindDocument, sends
    <3> QED
      BY <3>1
  <2>2. ASSUME TakePartner(q) \/ PartnerMissing(q) \/ TellByList(q) PROVE Grows
    BY <2>2 DEF TakePartner, PartnerMissing, TellByList, sends
  <2>3. ASSUME PushPartner(q) \/ PushDeletion(q) \/ WriteOwn(q) \/ WriteOwnFails(q) PROVE Grows
    BY <2>3 DEF PushPartner, PushDeletion, WriteOwn, WriteOwnFails, sends
  <2> HIDE DEF Grows
  <2>4. Grows
    BY <1>4, <2>1, <2>2, <2>3 DEF UpdateStep
  <2> QED
    BY <2>4 DEF Grows
<1> QED
  BY <1>1, <1>2, <1>3, <1>4 DEF LinkedNext

\* The inductive step of the whole invariant.
LEMMA LinkedStep == LinkedInv /\ [LinkedNext]_linkedVars => LinkedInv'
<1> SUFFICES ASSUME LinkedInv, [LinkedNext]_linkedVars PROVE LinkedInv'
  OBVIOUS
<1>0. Shapes /\ changed \subseteq Documents
  BY TypesShape DEF LinkedInv, LinkedTypeOK
<1>1. LinkedTypeOK' /\ StoredInOrder' /\ TargetsAgree' /\ PanicNeedsDouble'
  BY <1>0, LinkedNextTypes, OrderStays, TargetsStay, PanicStays DEF LinkedInv
<1>2. OneWay'
  <2> SUFFICES ASSUME Pulled', ~disturbed', NEW x \in Documents, changed' \subseteq {x}
               PROVE  OnlyOf(x)'
    BY DEF OneWay
  <2>1. Pulled /\ OnlyOf(x)
    BY <1>0, HistoryGrows DEF LinkedInv, OneWay, Pulled
  <2>2. CASE UNCHANGED linkedVars
    BY <2>1, <2>2 DEF OnlyOf, InFlight, Telling, Visible, IsThere, linkedVars, sends, stores
  <2>3. CASE Send \/ Collect
    BY <1>0, <2>1, <2>3, OthersKeepOnlyOf DEF LinkedInv
  <2>4. CASE ForgetDocument
    BY <2>4 DEF ForgetDocument
  <2>5. ASSUME NEW q \in Updates, UpdateStep(q) PROVE OnlyOf(x)'
    BY <1>0, <2>1, <2>5, RequestsKeepOnlyOf DEF LinkedInv
  <2> QED
    BY <2>2, <2>3, <2>4, <2>5 DEF LinkedNext
<1> QED
  BY <1>1, <1>2 DEF LinkedInv

\* The invariant holds for any lists, classes, states and requests.
THEOREM LinkedInvariant == LinkedSpec => []LinkedInv
  BY LinkedStart, LinkedStep, PTL DEF LinkedSpec

\* Every variable of the linked messages stays in its type.
THEOREM LinkedTypeCorrect == LinkedSpec => []LinkedTypeOK
<1>1. LinkedInv => LinkedTypeOK
  BY DEF LinkedInv
<1> QED
  BY <1>1, LinkedInvariant, PTL

\* MongoDB never has an original without its copy: the send stores the copy
\* first, and no later step of it does one without the other (messages.go:1147-1176).
THEOREM OriginalHasCopy == LinkedSpec => []CopyKept
<1>1. LinkedInv => CopyKept
  BY DEF LinkedInv, StoredInOrder, CopyKept
<1> QED
  BY <1>1, LinkedInvariant, PTL

\* Whatever the targets, and whoever was served: nobody who was not is taken from a
\* document, the copy of a list without doubles has just those, a removal panics
\* only for a list with a double, and the original has its copy (messages.go:2198).
THEOREM PairAlwaysIntact == LinkedSpec => []PairIntact
<1>1. LinkedInv => PairIntact
  <2> SUFFICES ASSUME LinkedInv
               PROVE  CopyKept /\ WantingKept /\ PanicNeedsDouble
    BY DEF PairIntact
  <2>1. CopyKept
    BY DEF LinkedInv, StoredInOrder, CopyKept
  <2>2. ASSUME NEW d \in Documents, NEW c \in {mongo[d], redis[d]}, IsThere(c)
        PROVE  /\ Wanting \subseteq Range(c.target)
               /\ d = "linking" /\ IsInjective(list)
                    => c.target = IF Cardinality(served) > 1 THEN Kept(list, Wanting) ELSE list
    <3>1. sending # "panicked" /\ c.target = target[d]
      BY <2>2 DEF LinkedInv, TargetsAgree, FromSend
    <3>2. TargetsFit
      BY <3>1 DEF LinkedInv, TargetsAgree
    <3> QED
      BY <3>1, <3>2 DEF TargetsFit
  <2>3. WantingKept
    BY <2>2 DEF WantingKept
  <2>4. PanicNeedsDouble
    BY DEF LinkedInv
  <2> QED
    BY <2>1, <2>3, <2>4
<1> QED
  BY <1>1, LinkedInvariant, PTL

\* Readers of both documents of a pulled pair see one status as long as updates
\* go one way, follow each other, succeed, and Redis forgets nothing.
THEOREM OneWayAlwaysAgrees == LinkedSpec => []OneWayAgrees
<1>1. LinkedInv => OneWayAgrees
  <2> SUFFICES ASSUME LinkedInv, Pulled, sending = "done", \A q \in Updates : ~InFlight(q),
                      changed # Documents, ~disturbed
               PROVE  Visible("original").status = Visible("linking").status
    BY DEF OneWayAgrees, Pulled
  <2>1. PICK x \in Documents : changed \subseteq {x}
    <3>1. changed \subseteq {"original", "linking"} /\ changed # {"original", "linking"}
      BY DEF LinkedInv, LinkedTypeOK, Documents
    <3>2. changed \subseteq {"original"} \/ changed \subseteq {"linking"}
      BY <3>1
    <3>3. "original" \in Documents /\ "linking" \in Documents
      BY DEF Documents
    <3> QED
      BY <3>2, <3>3
  <2>2. OnlyOf(x)
    BY <2>1 DEF LinkedInv, OneWay
  <2>3. \A d \in Documents : IsThere(mongo[d])
    BY DEF LinkedInv, StoredInOrder, Pulled, Documents
  <2>4. \A q \in Updates : ~Telling(q)
    BY DEF InFlight, Telling
  <2>5. Visible(Partner(x)).status = Visible(x).status
    BY <2>2, <2>3, <2>4, Others DEF OnlyOf, Visible
  <2> QED
    BY <2>5, Partners DEF Documents
<1> QED
  BY <1>1, LinkedInvariant, PTL
=============================================================================
