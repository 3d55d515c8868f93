------------------------- MODULE MCMessageDelivery -------------------------
(***************************************************************************)
(* Two pods (the deployed number of replicas), two users.  m1 and m2 are   *)
(* pushed from the first pod, m1 to both users and m2 to one of them; m3   *)
(* is put in that user's cached list.                                      *)
(***************************************************************************)
EXTENDS MessageDelivery, TLC

CONSTANTS p1, p2, u1, u2, m1, m2, m3

MCOrigin == [m \in Messages |-> p1]
MCReceivers == [m \in Messages |-> IF m = m1 THEN Users ELSE {u2}]
MCMode == [m \in Messages |-> IF m = m3 THEN "pull" ELSE "push"]

=============================================================================
