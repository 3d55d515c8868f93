------------------------ MODULE MCClientConnections ------------------------
(* Two users, the first with two connections, the second with the rest. *)
EXTENDS ClientConnections, TLC

CONSTANTS u1, u2, c1, c2

Symmetry == Permutations({c1, c2})

MCOwner == [c \in Conns |-> IF c \in {c1, c2} THEN u1 ELSE u2]

=============================================================================
