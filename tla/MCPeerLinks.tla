---------------------------- MODULE MCPeerLinks ----------------------------
(* Two pods, as in the deployment, and a third during an update, for TLC.  *)
EXTENDS PeerLinks, TLC

CONSTANTS p1, p2, p3, l1, l2, l3

TwoPods == {p1, p2}
ThreePods == {p1, p2, p3}
OneDials == {p1}
TwoLinks == {l1, l2}
ThreeLinks == {l1, l2, l3}
OnlyDiallersSend == [p \in Pods |-> IF p \in Dialling THEN 2 ELSE 0]
OneEach == [p \in Pods |-> 1]
AnyLink == Permutations(ThreeLinks) \cup Permutations({p2, p3})
AllFaults == {"ping", "api", "dial", "crash"}

=============================================================================
