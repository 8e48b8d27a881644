SPECIFICATION Spec
CONSTANTS
  c1 = c1
  c2 = c2
  c3 = c3
  s1 = s1
  s2 = s2
  k1 = k1
  k2 = k2
  k3 = k3
  x1 = x1
  x2 = x2
  p1 = p1
  g1 = g1
  q1 = q1
  None = None
  Contracts = {c2}
  Requests = {p1, g1, q1}
  PolicyRequests = {p1}
  GatewayRequests = {g1}
  ReconcileRequests = {q1}
  Surfaces = {s1}
  LedgerKeys = {k1, k2, k3}
  Scopes = {x1}
  SurfaceOf <- OneSurface
  ContractKey <- KeyOfC2
  AuthorityKey <- ObligationKey
  ScopesOf <- AllScopes
  ResourceScope <- Resource
  Prior <- NoPrior
  Exacting = {}
  IsolationStates = {}
  Store = "d1"
  LateReconciliation = FALSE
  Observations = {TRUE}
  Reviews = {"none"}
  Statuses = {"succeeded", "unknown"}
  Perishable = {}
  Unsteady = {}
INVARIANT TerminalEntriesNameTheAttempt
CHECK_DEADLOCK FALSE
