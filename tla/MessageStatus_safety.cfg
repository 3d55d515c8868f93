SPECIFICATION Spec
CONSTANTS
  u1 = u1
  u2 = u2
  author = author
  r1 = r1
  r2 = r2
  r3 = r3
  r4 = r4
  Users = {u1, u2, author}
  Receivers = {u1, u2}
  Target = {u1, u2}
  Author = author
  Classes <- MCClasses
  States <- MCStates
  First = "unread"
  NoStatus = ""
  Requests = {r1, r2, r3, r4}
  Kind <- KindOf
  By <- ByOf
  Asks <- AsksOf
  Faults = {"store", "redis"}
 
PROPERTY DeletedStays
PROPERTY OnlyOwnEntry
CHECK_DEADLOCK FALSE
