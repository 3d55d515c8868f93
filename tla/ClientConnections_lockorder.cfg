CONSTANTS
  u1 = u1
  u2 = u2
  c1 = c1
  c2 = c2
  Users = {u1}
  Conns = {c1}
  Owner <- MCOwner
  NoClient = NoClient
  Senders = {}
  Pushers = {}
  Handlers = {h1}
  Actions = {"deleteConfiguration"}
  Cap = 2

SPECIFICATION FairSpec

PROPERTY
  BrokenIsDisconnected

CHECK_DEADLOCK FALSE
