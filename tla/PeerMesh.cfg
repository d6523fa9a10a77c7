\* Two peers that stay and a guest that comes and goes, two experts.
SPECIFICATION PeersSpec
CONSTANTS
  a = a  b = b  g = g  x = x  y = y
  Peers = {a, b, g}
  Core = {a, b}
  ExpertIds = {x, y}
  Offers <- MCOffers
  TopK = 2
  MaxHosts = 3
SYMMETRY Alike
INVARIANTS
  PeersTypeOK
  MergedIsTrusted
  EachOnce
  CoreAgrees
