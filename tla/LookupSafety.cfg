SPECIFICATION Spec
CONSTANTS
  r1 = r1
  r2 = r2
  url = url
  host = host
  Requests = {r1, r2}
  NoRequest = NoRequest
  Values = {url, host}
  HostOf <- MCHostOf
  CacheMax = 1
  TTL = 2
  DegradedTTL = 1
  QueryTime = 1
INVARIANTS
  TypeOK
  FlightsMatch
  CacheBounded
PROPERTIES
  AnswersAge
SYMMETRY Symmetry
