\* A prefix with a character of two bytes.
CONSTANTS
  api = api
  www = www
  empty = empty
  bracket = bracket
  ex = ex
  long = long
  addr = addr
  c = c
  e = e
  b = b
  Labels = {api, www, empty, bracket}
  NoRest = NoRest
  Rests = {NoRest, ex, long}
  Literals = {addr}
  LeftBracket = bracket
  NameBytes <- MCNameBytes
  Slash = Slash
  Chars = {Slash, c, e}
  Paths <- WidePaths
  PathBytes <- MCPathBytes
  Targets = {b}
  Calls <- MCWideCalls
  None = None
SPECIFICATION Spec
INVARIANT PrefixEndsSegment
