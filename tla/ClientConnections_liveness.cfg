CONSTANTS
  u1 = u1
  u2 = u2
  c1 = c1
  c2 = c2
  Users = {u1, u2}
  Conns = {c1, c3}
  Owner <- MCOwner
  NoClient = NoClient
  Senders = {s1}
  Pushers = {}
  Handlers = {h1}
  Actions = {"locked"}
  Cap = 3

SPECIFICATION FairSpec

PROPERTIES
  BrokenIsDisconnected
  

CHECK_DEADLOCK FALSE
