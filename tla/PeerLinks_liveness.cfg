SPECIFICATION FairSpec
CONSTANTS
  p1 = p1 p2 = p2 p3 = p3 l1 = l1 l2 = l2 l3 = l3
  NoLink = NoLink NoPod = NoPod
  Pods <- TwoPods
  Dialling <- TwoPods
  Links <- TwoLinks
  Cap = 1
  MaxSends <- OneEach
  Faults = {}
PROPERTIES DeadLeaves DiallingEnds
CHECK_DEADLOCK FALSE
