\* Two overlapping UpdateRoutes calls, one GetRoutes call, two shards.
CONSTANTS
  a = a
  b = b
  x = x
  y = y
  RouteIds = {a, b}
  Bodies = {x, y}
  NoRoute = NoRoute
  NoRequest = NoRequest
  Syncing = Syncing
  Handlers = {h1, h2}
  Readers = {r1}
  NumShards = 2
  ShardOf <- MCShardOf
  Requests <- MCRequests
SPECIFICATION ReadsSpec
SYMMETRY HandlerSymmetry
INVARIANTS
  TypeOK
  SettledIsMerge
  RedeliveryIsIdempotent
  UntouchedRouteIsSeen
  NothingFromThePast
PROPERTIES
  ImplementsSync
