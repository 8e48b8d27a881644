SPECIFICATION Spec
CONSTANTS
  c1 = c1
  c2 = c2
  c3 = c3
  s1 = s1
  s2 = s2
  k1 = k1
  k2 = k2
  k3 = k3
  x1 = x1
  x2 = x2
  p1 = p1
  p2 = p2
  g1 = g1
  g2 = g2
  q1 = q1
  q2 = q2
  q3 = q3
  None = None
  Contracts = {c1, c2, c3}
  Requests = {p1, p2, g1, g2, q1, q2}
  PolicyRequests = {p1, p2}
  GatewayRequests = {g1, g2}
  ReconcileRequests = {q1, q2}
  Surfaces = {s1, s2}
  LedgerKeys = {k1, k2, k3}
  Scopes = {x1}
  SurfaceOf <- SurfaceForC3
  ContractKey <- KeyOfC2
  AuthorityKey <- ObligationKey
  ScopesOf <- AllScopes
  ResourceScope <- Resource
  Prior <- C3AfterC2
  Exacting = {}
  IsolationStates = {"review_only"}
  Store = "d1"
  LateReconciliation = TRUE
  Observations = {TRUE}
  Reviews = {"approved"}
  Statuses = {"succeeded", "unknown"}
  Perishable = {}
  Unsteady = {}
SYMMETRY Kinds
INVARIANTS AdmittedInSequence LedgerNamesTheMutation LedgerTellsTheOutcome
PROPERTIES LedgerNeverGoesBack
CHECK_DEADLOCK FALSE
