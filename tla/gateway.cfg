\* Two requests at a time, two backends that fail and recover at any time, and one
\* whose address is bad.
CONSTANTS
  one = one
  two = two
  bad = bad
  Backends = {one, two, bad}
  Malformed = {bad}
  Workers = {q1, q2}
  Pickers = {q1, q2}
  Threshold = 3
  CountSize = 11
  Shard <- MCShard
  Pools <- MCPools
  CounterSize = 2
  NoPool = NoPool
  Window = 0
SPECIFICATION GatewaySpec
SYMMETRY RequestSymmetry
INVARIANTS
  GatewayTypeOK
  OutageCostsFew
  MalformedStaysIn
PROPERTY NoWayBack
