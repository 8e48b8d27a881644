\* Four runs of three greenlights on one surface.
SPECIFICATION FairSpec
CONSTANTS
  None = None
  r1 = r1
  r2 = r2
  r3 = r3
  r4 = r4
  g1 = g1
  g2 = g2
  g3 = g3
  s1 = s1
  Runs = {r1, r2, r3, r4}
  Greenlights = {g1, g2, g3}
  Surfaces = {s1}
  GreenlightOf <- MCGreenlightOf
  SurfaceOf <- MCSurfaceOf
  KindOf <- MCKindOf
INVARIANTS
  EffectsFollowTheirGate
  ReportedSuccessHappened
  OneOperationAtATime
  CallersAreToldTheLedger
PROPERTY
  AdmittedIsReported
CHECK_DEADLOCK FALSE
