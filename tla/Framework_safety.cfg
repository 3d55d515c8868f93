SPECIFICATION Spec
CONSTANTS
  r1 = r1
  r2 = r2
  r3 = r3
  license = license
  service = service
  k1 = k1
  k2 = k2
  debug = debug
  other = other
  Clients = {r1, r2, r3}
  Style <- MCStyle
  MaxDepth = 2
  Nobody = Nobody
  MaxRequests = 2
  Room = 2
  MaxListens = 2
  MaxChanges = 3
  Maps = {license, service}
  Keys = {k1, k2}
  Plans <- MCPlans
  Fields = {debug, other}
  Content <- MCContent
  Variant = debug
  MaxVersion <- MCMaxVersion
  Main = Main
  NoValue = NoValue
INVARIANT FrameworkTypeOK
INVARIANT HoldersHave
INVARIANT ReturnedMeansDone
 
PROPERTY IsLease
PROPERTY NoStepBack
 
PROPERTY InformersEnd
CHECK_DEADLOCK FALSE
