SPECIFICATION FairSpec
CONSTANTS
  c1 = c1
  c2 = c2
  c3 = c3
  s1 = s1
  s2 = s2
  k1 = k1
  k2 = k2
  k3 = k3
  x1 = x1
  x2 = x2
  p1 = p1
  p2 = p2
  g1 = g1
  g2 = g2
  q1 = q1
  None = None
  Contracts = {c1, c2}
  Requests = {p1, p2, g1, g2, q1}
  PolicyRequests = {p1, p2}
  GatewayRequests = {g1, g2}
  ReconcileRequests = {q1}
  Surfaces = {s1}
  LedgerKeys = {k1}
  Scopes = {x1}
  SurfaceOf <- OneSurface
  ContractKey <- SharedKey
  AuthorityKey <- SharedKey
  ScopesOf <- AllScopes
  ResourceScope <- Resource
  Prior <- NoPrior
  Exacting = {}
  IsolationStates = {"halted"}
  Store = "memory"
  LateReconciliation = FALSE
  Observations = {TRUE}
  Reviews = {"approved"}
  Statuses = {"succeeded"}
  Perishable = {}
  Unsteady = {}
PROPERTIES EveryRequestIsAnswered AuthoritySpec StandingIsolationHolds
CHECK_DEADLOCK FALSE
