\* Every subset of four routes that compete for the same requests.
CONSTANTS
  api = api
  www = www
  empty = empty
  bracket = bracket
  ex = ex
  long = long
  addr = addr
  c = c
  e = e
  b = b
  Labels = {api, www, empty, bracket, "example", "other", "any", "another", "foo", "bar", "api", "a", "b", "c"}
  NoRest = NoRest
  Rests = {NoRest, ex, long, "com", "host.com", "example.org", "example.com", "bar.example.com"}
  Literals = {addr}
  LeftBracket = bracket
  NameBytes <- MCNameBytes
  Slash = Slash
  Chars = {Slash, c, e, "api", "v1", "v2", "users", "health", "keys", "other"}
  Paths <- MCPaths
  PathBytes <- MCPathBytes
  Targets = {b, "backend", "backend1", "backend2", "catchall", "wildcard", "exact", "prefix", "short", "long", "api", "default"}
  Calls <- MCCalls
  None = None
SPECIFICATION Spec
INVARIANTS
  MatchTypeOK
  DocumentedPriority
  TestsPass
PROPERTY ImplementsChoice
