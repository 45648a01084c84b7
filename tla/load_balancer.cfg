\* Two concurrent picks from a weighted list while the health changes.
CONSTANTS
  b1 = b1
  b2 = b2
  Backends = {b1, b2}
  Workers = {w1}
  Threshold = 1
  CountSize = 2
  Shard <- MCShard
  Pools <- MCWeighted
  Pickers = {p1, p2}
  CounterSize = 5
  NoPool = NoPool
  Window = 3
SPECIFICATION BalancerSpec
SYMMETRY PickerSymmetry
INVARIANTS
  BalancerTypeOK
  AnswerWasTrue
  ExactShare
