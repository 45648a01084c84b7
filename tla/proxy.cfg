\* A request at a time, retried ones included, beside updates that take a backend
\* out of a route and put it back, and a GetRoutes call.
CONSTANTS
  a = a
  old = old
  new = new
  name = name
  RouteIds = {a}
  Bodies <- MCBodies
  NoRoute = NoRoute
  NoRequest = NoRequest
  Requests <- MCRequests
  Handlers = {h1}
  Readers = {q1, r1}
  NumShards = 1
  ShardOf <- MCShardOf
  Labels = {name}
  NoRest = NoRest
  Rests = {NoRest}
  Literals = {}
  LeftBracket = name
  NameBytes <- MCNameBytes
  Slash = Slash
  Chars = {Slash}
  Paths <- MCPaths
  PathBytes <- MCPathBytes
  Targets <- MCTargets
  None = None
  Asks <- MCAsks
  NoAsk = NoAsk
  Backends = {old, new}
  Malformed = {}
  Workers = {q1}
  Pickers = {q1}
  Threshold = 2
  CountSize = 5
  Shard <- MCShard
  Pools <- MCPools
  CounterSize = 2
  NoPool = NoPool
  Window = 0
SPECIFICATION ProxySpec
PROPERTY DrainedStaysDrained
