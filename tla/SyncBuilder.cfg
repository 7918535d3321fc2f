SPECIFICATION SpecWithoutTwin
CONSTANTS
  w1 = w1
  w2 = w2
  a = a
  b = b
  o1 = o1
  o2 = o2
  o3 = o3
  i1 = i1
  i2 = i2
  Workers = {w1}
  Builder = w1
  Values = {a, b}
  Observables = {o1, o2, o3}
  Indicators = {i1, i2}
  Shows <- MCShows
  Streamed = {o2, o3}
  Basis <- MCBasis
  Precise = TRUE
  OverlayMax = 2
  Retention = 1
  MaxEvents = 2
INVARIANTS
  TypeOK
  ToldAnswered
  NoFalseMiss
PROPERTY ImplementsLiveSet
