SPECIFICATION FairSpec
CONSTANTS
  StaleAfter = 3
  CheckEvery = 2
  BackoffMax = 4
  SilenceMax = 2
  MaxEvents = 3
INVARIANTS
  TypeOK
  TrustIsRecent
  RecoversInTime
  OnlyPoisonLost
PROPERTY CatchesUp
