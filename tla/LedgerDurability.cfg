SPECIFICATION Spec
CONSTANTS
  n1 = n1  n2 = n2  n3 = n3
  None = None
  AllNonces = {n1, n2, n3}
  Handles = {h1}
  Faults = {"crash", "tear", "shortWrite", "writeFails", "syncFails"}
  MaxPieces = 7
SYMMETRY NonceSymmetry
INVARIANTS AckedIsDurable AckedOnce
