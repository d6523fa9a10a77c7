\* Two experts with up to four frames each, in batches of two; one fault in
\* all, of any kind; two attempts to reach an expert.
SPECIFICATION Spec
CONSTANTS
  Peers = {"x", "y", "o"}
  Experts <- MCExperts
  Origin = "o"
  Backend <- MCBackend
  Events = {"noise", "delta", "last delta"}
  Faults = {"port", "error", "reset", "write", "delay", "http"}
  ReplayWindow = 2
  BatchSize = 2
  MaxRetries = 1
  MaxFrames = 4
  MaxFaults = 1
INVARIANTS
  TypeOK
  FoldedInOrder
  GapsComeFromFaults
  ServedOnce
PROPERTIES
  ServedIsDone
CHECK_DEADLOCK FALSE
