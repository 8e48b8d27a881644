\* One contract, one path with one required probe kind and a path that is not its
\* own; a probe of either, two postures, an evaluation, a gate check, one evidence and
\* one packet request.
SPECIFICATION Spec
CONSTANTS
  None = None
  c1 = c1
  path = path
  other = other
  kind = kind
  cred = cred
  auth = auth
  q1 = q1
  p1 = p1
  p2 = p2
  Probes = {q1}
  Postures = {p1, p2}
  Evaluations = {e1}
  Gates = {g1}
  Evidences = {w1}
  Packets = {k1}
  Contracts = {c1}
  Paths = {path, other}
  Kinds = {kind}
  CredentialIds = {cred}
  AuthorityIds = {auth}
  MaxTime = 2
  ProbeInputs <- MCProbeInputs
  PostureInputs <- MCPostureInputs
  CredentialInputs <- MCCredentialInputs
  AuthorityInputs <- MCAuthorityInputs
  RegistryInputs <- MCRegistryInputs
  PathOf <- MCPathOf
  PathRequired <- MCPathRequired
  CredentialOf <- MCCredentialOf
  AuthorityOf <- MCAuthorityOf
  RegistryOf <- MCRegistryOf
SYMMETRY SamePostures
INVARIANTS
  GreenlitOnStandingBindings
  PassedOnStandingBindings
  PassRestsOnProbesOfItsPath
  EvidenceFollowsItsGate
CHECK_DEADLOCK FALSE
