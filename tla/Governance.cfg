\* Supports, attestations and verdicts in every order, with repetitions; the
\* list of supports may pass maxSupports by one.
SPECIFICATION Spec
CONSTANTS
  TrustedSigners = {1, 2, 3, 4}
  MinimumQuorum = 2
  RiskThreshold = 50
  MinimumEffective = 2000
  MaxSupports = 4
  MaxProvenanceIds = 2
  MaxSupportTtl = 3
  ClockSkew = 0
  TrustedVerifiers = {11, 12, 13}
  Contributors = {13}
  LineageOf <- MCLineageOf
  MinAffirmations = 2
  MinEffectiveSupport = 2000
  CertK = 2
  MinPairIndependence = 700
  MaxCertSigners = 4
  Actions = {"deploy", "delete"}
  Supports = {"one", "two", "twoRisky", "three", "four", "other", "forged"}
  Support <- MCSupport
  Attestations = {"x", "xAgain", "y", "z", "zForged"}
  Attestation <- MCAttestation
  Verdicts = {"a11", "a12", "r11", "unsure", "forged", "own", "b11", "b12"}
  Verdict <- MCVerdict
  Outcomes = {"h1", "h2"}
  MaxTime = 2
  MaxAttestations = 5
  MaxVerdicts = 4
  MaxRecords = 2
INVARIANTS
  TypeOK
  ExecutesOnQuorum
  SelectionIsBest
  VerdictOrderIrrelevant
  ReputationIsEarned
PROPERTIES
  CertGrowsSafely
CHECK_DEADLOCK FALSE
