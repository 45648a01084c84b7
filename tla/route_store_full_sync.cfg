\* Two overlapping UpdateRoutes calls with different requests.
CONSTANTS
  a = a
  b = b
  x = x
  y = y
  RouteIds = {a, b}
  Bodies = {x, y}
  NoRoute = NoRoute
  NoRequest = NoRequest
  NumShards = 2
  ShardOf <- MCShardOf
  Requests <- MCRequests
  Handlers = {h1, h2}
  Readers = {}
SPECIFICATION Spec
INVARIANT FullSyncReplaces
