\* A success recorded while other calls count failures.
CONSTANTS
  b1 = b1
  b2 = b2
  Backends = {b1, b2}
  Workers = {w1, w2}
  Threshold = 2
  CountSize = 5
  Shard <- MCShard
SPECIFICATION HealthSpec
INVARIANT StreakDemotes
