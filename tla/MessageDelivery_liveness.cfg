SPECIFICATION FairSpec
CONSTANTS
  p1 = p1
  p2 = p2
  u1 = u1
  u2 = u2
  m1 = m1
  m2 = m2
  m3 = m3
  Pods = {p1, p2}
  Users = {u1, u2}
  Messages = {m1, m3}
  Origin <- MCOrigin
  Receivers <- MCReceivers
  Mode <- MCMode
  NoMessage = NoMessage
  NoUser = NoUser
  Faults = {"redis"}
PROPERTY Settles
