SPECIFICATION EvidenceSpec
CONSTANTS
  c1 = c1
  c2 = c2
  s1 = s1
  k1 = k1
  k2 = k2
  x1 = x1
  p1 = p1
  p2 = p2
  g1 = g1
  q1 = q1
  None = None
  Contracts = {c1, c2}
  Requests = {p1, p2, g1, q1}
  PolicyRequests = {p1, p2}
  GatewayRequests = {g1}
  ReconcileRequests = {q1}
  Surfaces = {s1}
  LedgerKeys = {k1, k2}
  Scopes = {x1}
  SurfaceOf <- OneSurface
  ContractKey <- OwnKey
  AuthorityKey <- OwnKey
  ScopesOf <- AllScopes
  ResourceScope <- Resource
  Prior <- NoPrior
  Exacting = {c1}
  IsolationStates = {"halted"}
  Store = "d1"
  LateReconciliation = FALSE
  Observations = {TRUE}
  Reviews = {"none"}
  Statuses = {"unknown"}
  Perishable = {}
  Unsteady = {}
  ReadContracts = {c1}
  ParamsOf <- SameParams
SYMMETRY Interchangeable
INVARIANTS OfferedGreenlightIsGood AdmittedIsNotForgotten UnknownIsNotHidden CertificateTellsItsTerminal
CHECK_DEADLOCK FALSE
