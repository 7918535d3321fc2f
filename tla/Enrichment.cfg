SPECIFICATION FairSpec
CONSTANTS
  evil = evil
  intra = intra
  v4 = v4
  lan = lan
  md5 = md5
  sha = sha
  page = page
  NoPath = NoPath
  Automatic = Automatic
  Floor = 10
  domain = domain
  addr = addr
  file = file
  i1 = i1
  i2 = i2
  IPs = {v4}
  PrivateIPs = {lan}
  IPv6s = {}
  Domains = {evil}
  InternalDomains = {intra}
  Digests = {md5, sha}
  Others = {}
  Paths = {page}
  Observables <- MCObservables
  Indicators = {i1, i2}
  Late = {addr}
  Shown <- MCShown
  Keys <- MCKeys
  LinksOf <- MCLinksOf
  Score <- MCScore
  PageSize = 2
  Deployments <- MCDeployments
  Requested <- MCRequested
  Alerts <- MCAlerts
  MaxIndicators = 2
  HttpTimeout = 0
  QueryTime = 1
  CacheMax = 1
INVARIANTS
  TypeOK
  BudgetHeld
  AffordableComplete
  DismissalsAgree
  HitsBacked
PROPERTIES
  EventsMatchHits
  SureHitsReported
  ScriptEnds
