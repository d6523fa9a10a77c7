SPECIFICATION Spec
CONSTANTS
  ObservationsPerStage = 2
  r1 = r1  r2 = r2  p1 = p1  p2 = p2  p3 = p3  c1 = c1  c2 = c2
  t1 = t1  t2 = t2  f1 = f1  f2 = f2  h1 = h1  h2 = h2
  None = None
  Rollouts = {r1}
  Promotions = {p1, p3}
  Candidates = {c1}
  Targets = {t1}
  Paths = {f1}
  Handles = {h1}
  CandidateOf <- Reissued
  TargetOf <- Superseded
  ExpiryOf <- Expiries
  PathOf <- OwnPaths
  HandleOf <- SharedHandle
  Times <- Clock
  Faults = {"crash", "feedPanics", "adapterPanics", "saveFails", "clearFails", "unhealthy", "restoreIgnored", "restoreRefused"}
  MaxSamples = 5
  MaxRecords = 4
INVARIANTS TypeOK PromotedOnce
PROPERTIES PromotedAfterWholeWalk RollbackIsKept RefinesStagedPromotion
