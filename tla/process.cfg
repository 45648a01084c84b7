\* Two handlers, a controller with two configurations, a request to route.
CONSTANTS
  a = a
  b = b
  api = api
  ex = ex
  bracket = bracket
  c = c
  up = up
  RouteIds = {a, b}
  Bodies <- MCBodies
  NoRoute = NoRoute
  NoRequest = NoRequest
  Syncing = Syncing
  Requests <- MCRequests
  Handlers = {h1, h2}
  Readers = {q1}
  Servers = {"grpc", "proxy"}
  NumShards = 2
  ShardOf <- MCShardOf
  Labels = {api, bracket}
  NoRest = NoRest
  Rests = {NoRest, ex}
  Literals = {}
  LeftBracket = bracket
  NameBytes <- MCNameBytes
  Slash = Slash
  Chars = {Slash, c}
  Paths <- MCPaths
  PathBytes <- MCPathBytes
  Targets = {up}
  None = None
  Asks <- MCAsks
  NoAsk = NoAsk
SPECIFICATION ProcessSpec
INVARIANTS
  VersionTellsTable
PROPERTIES
  AnswerFits
  ImplementsRegister
  ConfigurationReturns
  CallsComplete
