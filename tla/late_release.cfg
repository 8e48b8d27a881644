SPECIFICATION Spec
CONSTANTS
  c1 = c1
  c2 = c2
  c3 = c3
  s1 = s1
  s2 = s2
  k1 = k1
  k2 = k2
  k3 = k3
  x1 = x1
  x2 = x2
  p1 = p1
  p2 = p2
  g1 = g1
  g2 = g2
  q1 = q1
  q2 = q2
  None = None
  Contracts = {c1, c2}
  Requests = {p1, p2, g1, g2, q1, q2}
  PolicyRequests = {p1, p2}
  GatewayRequests = {g1, g2}
  ReconcileRequests = {q1, q2}
  Surfaces = {s1}
  LedgerKeys = {k1, k2}
  Scopes = {x1}
  SurfaceOf <- OneSurface
  ContractKey <- OwnKey
  AuthorityKey <- OwnKey
  ScopesOf <- AllScopes
  ResourceScope <- Resource
  Prior <- NoPrior
  Exacting = {}
  IsolationStates = {"active"}
  Store = "memory"
  LateReconciliation = TRUE
  Observations = {TRUE}
  Reviews = {"none"}
  Statuses = {"succeeded"}
  Perishable = {}
  Unsteady = {}
SYMMETRY Kinds
CHECK_DEADLOCK FALSE
PROPERTIES ReconciliationKeepsToItsMutation
