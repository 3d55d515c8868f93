SPECIFICATION Spec
CONSTANTS
  c1 = c1
  c2 = c2
  c3 = c3
  k1 = k1
  s1 = s1
  s2 = s2
  n1 = n1
  a1 = a1
  a2 = a2
  u1 = u1
  u2 = u2
  t1 = t1
  t2 = t2
  l1 = l1
  l2 = l2
  l3 = l3
  g1 = g1
  g2 = g2
  g3 = g3
  o1 = o1
  Links = {l1, l2, l3}
  Apps = {a1}
  AppOf <- MCAppOf
  FromPod = FromPod
  Posters = {p1}
  Capacity = 2
  MaxPosts = 2
  Requests = {q1, q2}
  Inputs <- MCInputs
  Initial <- MCInitial
  IndexChoices = {TRUE, FALSE}
  MaxFaults = 2
  Names = {c1, c2, c3, k1, s1, s2, n1}
  AppIds = {a1, a2}
  NoDoc = NoDoc
  NoApp = NoApp
  NoKey = NoKey
  Sends = {m1}
  Kinds = {"mail1", "mail2", "feishu1", "feishu2", "dingtalk1", "dingtalk2", "third1", "third2"}
  Users = {u1, u2}
  Accounts <- MCAccounts
  Tenants = {t1, t2}
  TenantOf <- MCTenantOf
  Companies = {t2}
  OwnTenant = t1
  Events = 1
  Consumers = {e1}
  MaxMishaps = 2
  NoTenant = NoTenant
  NoRecord = NoRecord
  None = None
  Contents <- MCContents
  Fillings <- MCFillings
  Askers = {o1, Nobody}
  Nobody = Nobody
  Exclusive = {g3}
  ClassIds = {g1, g2, g3}
  Limit = 2
  MaxWrites = 2
  Writer = w1
  Lists <- MCLists
  Styles <- MCStyles
  Updates = {q1, q2}
  States = {"unread", "read", "deleted"}
  FirstState = "unread"
 
 
INVARIANT NoListMeansDeleted
INVARIANT NoSecondCopy
INVARIANT NobodyForgotten
INVARIANT TokenOfItsTenant
INVARIANT GreetingFirst
INVARIANT GhostOnlyIfPinged
INVARIANT PagesAgree
INVARIANT OthersDontSee
INVARIANT PairIntact
INVARIANT OneWayAgrees
PROPERTY NoDuplicate
PROPERTY TicketBackOnlyIfStale
PROPERTY QuietAfterDisconnect
CHECK_DEADLOCK FALSE
