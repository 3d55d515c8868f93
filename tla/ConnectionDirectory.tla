------------------------ MODULE ConnectionDirectory ------------------------
(***************************************************************************)
(* What a pod's connection registry promises, without entries or mutexes:  *)
(* every user has a set of connections, a connection is added to its       *)
(* owner's set once and taken out once.                                    *)
(***************************************************************************)
CONSTANTS Users, Conns, Owner

VARIABLES
  directory,  \* the connections each user has
  ended       \* the connections that were taken out

Init ==
  /\ directory = [u \in Users |-> {}]
  /\ ended = {}

Add(c) ==
  /\ c \notin ended
  /\ c \notin directory[Owner[c]]
  /\ directory' = [directory EXCEPT ![Owner[c]] = @ \cup {c}]
  /\ UNCHANGED ended

Remove(c) ==
  /\ c \in directory[Owner[c]]
  /\ directory' = [directory EXCEPT ![Owner[c]] = @ \ {c}]
  /\ ended' = ended \cup {c}

Next == \E c \in Conns : Add(c) \/ Remove(c)

Spec == Init /\ [][Next]_<<directory, ended>>

=============================================================================
