SPECIFICATION Spec
CONSTANTS
  p1 = p1 p2 = p2 p3 = p3 l1 = l1 l2 = l2 l3 = l3
  NoLink = NoLink NoPod = NoPod
  Pods <- ThreePods
  Dialling <- OneDials
  Links <- ThreeLinks
  Cap = 1
  MaxSends <- OnlyDiallersSend
  Faults <- AllFaults
SYMMETRY AnyLink
INVARIANT OpenIsRegistered
CHECK_DEADLOCK FALSE
