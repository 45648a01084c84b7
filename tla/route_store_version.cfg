\* One handler, an older request arriving after a newer one.
CONSTANTS
  a = a
  b = b
  x = x
  y = y
  RouteIds = {a, b}
  Bodies = {x, y}
  NoRoute = NoRoute
  NoRequest = NoRequest
  NumShards = 2
  ShardOf <- MCShardOf
  Requests <- MCRequests
  Handlers = {h1}
  Readers = {}
SPECIFICATION Spec
PROPERTY VersionNeverRegresses
