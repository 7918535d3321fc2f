SPECIFICATION FlightFairSpec
CONSTANTS
  c1 = c1
  c2 = c2
  c3 = c3
  url = url
  host = host
  NoCall = NoCall
  Calls = {c1, c2, c3}
  Keys = {url, host}
  Urls = {url}
  MaxConcurrency = 1
  FailThreshold = 2
  ResetAfter = 1
INVARIANTS
  FlightTypeOK
  BreakerConsistent
  PermitsAccounted
  OneCallPerKey
PROPERTIES
  OpenShedsLoad
  BreakerRecovers
  LookupsEnd
  LookupsRecover
