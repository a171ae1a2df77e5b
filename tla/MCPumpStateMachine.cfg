CONSTANTS
  None = None
  f1 = f1
  f2 = f2
  k1 = k1
  k2 = k2
  t1 = t1
  EvidenceKeys = {k1, k2}
  MaxVersion = 11
  Observations <- SaleObservations
SPECIFICATION Spec
INVARIANTS
  TypeOK
  FuellingWasAuthorized
  CompletedOncePerEvidence
  HealthyMeansConnected
PROPERTIES
  VersionFollowsView
  TimeNeverGoesBack
