SPECIFICATION Spec
CONSTANTS
  f1 = f1
  f2 = f2
  d1 = d1
  d2 = d2
  a1 = a1
  a2 = a2
  b1 = b1
  b2 = b2
  t1 = t1
  t2 = t2
  e1 = e1
  e2 = e2
  c1 = c1
  c2 = c2
  o1 = o1
  p1 = p1
  p2 = p2
  v1 = v1
  v2 = v2
  x = x
  y = y
  s1 = s1
  None = None
  OfferRequests = {f1, f2}
  DecisionRequests = {d1}
  AgreementRequests = {a1, a2}
  BindingRequests = {b1, b2}
  TransitionRequests = {t1, t2}
  Evaluations = {e1, e2}
  OfferInputs <- MCOfferInputs
  DecisionKinds = {"accept", "counter"}
  StatusInputs = {"active", "disputed"}
  AgreementExpiries = {1}
  Parties = {p1, p2}
  Contracts = {c1, c2}
  Obligations = {o1}
  ObligationOf <- MCObligationOf
  CounterpartyOf <- MCCounterpartyOf
  LedgerScopes = {s1}
  LedgerScopeOf <- OneScope
  SessionExpiry = 2
  MaxTime = 1
SYMMETRY Peers
INVARIANT GreenlightRestsOnAcceptedTerms
PROPERTIES ObligationAuthority LeftAgreementsWithhold AmbiguousBindingsWithhold
CHECK_DEADLOCK FALSE
