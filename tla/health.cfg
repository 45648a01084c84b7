\* Three workers inside the tracker's calls; the count wraps at 5.
CONSTANTS
  b1 = b1
  b2 = b2
  Backends = {b1, b2}
  Workers = {w1, w2, w3}
  Threshold = 2
  CountSize = 5
  Shard <- MCShard
SPECIFICATION HealthSpec
SYMMETRY Symmetry
INVARIANTS
  HealthTypeOK
  UnhealthyIsEarned
PROPERTY OnlyLateLiftsEscape
