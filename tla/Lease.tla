------------------------------- MODULE Lease -------------------------------
(***************************************************************************)
(* What a lock with a lease promises: it has one owner at a time, only the *)
(* owner gives it back, and it may lapse.  An owner whose lease has lapsed *)
(* does not notice: it is in believers until it gives the lock back.       *)
(***************************************************************************)
CONSTANTS Clients, Nobody

VARIABLES owner, believers

Init == owner = Nobody /\ believers = {}

\* An owner that takes the lock again only renews it.
Acquire(c) ==
  /\ owner \in {Nobody, c}
  /\ owner' = c
  /\ believers' \in {believers, believers \cup {c}}   \* the answer may be lost

\* The owner stops using the lock before it gives it back, or cannot.
Release(c) ==
  /\ owner' = owner \/ (owner = c /\ owner' = Nobody)
  /\ believers' \in {believers, believers \ {c}}

Lapse == owner' = Nobody /\ UNCHANGED believers

Next == Lapse \/ \E c \in Clients : Acquire(c) \/ Release(c)

Spec == Init /\ [][Next]_<<owner, believers>>
=============================================================================
