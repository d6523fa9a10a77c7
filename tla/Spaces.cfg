SPECIFICATION Spec
CONSTANTS
  Unit = 2
  Low = 1
  High = 2
  MaxTtl = 2
  ClockSkew = 1
  Start = 3
  End = 6
  TimeoutMs = 1
  MaxBytes = 2
  MaxBody = 3
  ChunkSizes <- MCChunkSizes
  Ttls <- MCTtls
  Confidences <- MCConfidences
  Labels <- MCLabels
  Floor <- MCFloor
  MaxReadings = 1
INVARIANTS
  TypeOK
  MemoryIsNotEvidence
  LabelsHold
