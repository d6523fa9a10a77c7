SPECIFICATION LiveSpec
CONSTANTS
  ObservationsPerStage = 1
  r1 = r1  r2 = r2  p1 = p1  p2 = p2  p3 = p3  c1 = c1  c2 = c2
  t1 = t1  t2 = t2  f1 = f1  f2 = f2  h1 = h1  h2 = h2
  None = None
  Rollouts = {r1, r2}
  Promotions = {p1, p2}
  Candidates = {c1, c2}
  Targets = {t1}
  Paths = {f1, f2}
  Handles = {h1, h2}
  CandidateOf <- Reissued
  TargetOf <- Superseded
  ExpiryOf <- Expiries
  PathOf <- OwnPaths
  HandleOf <- OwnHandles
  Times <- Clock
  Faults = {"feedPanics", "unreadable", "recordFails"}
  MaxSamples = 2
  MaxRecords = 1
INVARIANTS OneRolloutPerTarget
PROPERTIES LockReleased
