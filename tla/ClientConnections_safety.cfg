CONSTANTS
  u1 = u1
  u2 = u2
  c1 = c1
  c2 = c2
  Users = {u1}
  Conns = {c1, c2}
  Owner <- MCOwner
  NoClient = NoClient
  Senders = {s1}
  Pushers = {p1}
  Handlers = {h1}
  Actions = {"plain", "locked", "deleteConfiguration"}
  Cap = 1

SPECIFICATION Spec

INVARIANTS
  TypeOK
  RegisteredIffLive
  EmptyEntryAwaitsItsRequest
  DeliversOnlyToRegistered

PROPERTIES
  ImplementsDirectory

SYMMETRY Symmetry

CHECK_DEADLOCK FALSE
