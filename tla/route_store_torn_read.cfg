\* A GetRoutes call beside a single UpdateRoutes handler.
CONSTANTS
  a = a
  b = b
  x = x
  y = y
  RouteIds = {a, b}
  Bodies = {x, y}
  NoRoute = NoRoute
  NoRequest = NoRequest
  NumShards = 2
  ShardOf <- MCShardOf
  Requests <- MCRequests
  Handlers = {h1}
  Readers = {r1}
SPECIFICATION Spec
INVARIANT ReplyIsOneConfiguration
