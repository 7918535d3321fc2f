SPECIFICATION FairSpec
CONSTANTS
  w1 = w1
  w2 = w2
  a = a
  b = b
  o1 = o1
  o2 = o2
  o3 = o3
  i1 = i1
  i2 = i2
  Workers = {w1, w2}
  Builder = w1
  Values = {a, b}
  Observables = {o1}
  Indicators = {}
  Shows <- MCShows
  Streamed = {o1}
  Basis <- MCBasis
  Precise = FALSE
  OverlayMax = 2
  Retention = 1
  MaxEvents = 2
INVARIANT TouchedAgree
PROPERTY WorkersFollow
