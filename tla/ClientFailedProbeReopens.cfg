SPECIFICATION Spec
CONSTANTS
  c1 = c1
  c2 = c2
  c3 = c3
  Calls = {c1, c2, c3}
  MaxConcurrency = 2
  FailThreshold = 2
  ResetAfter = 2
PROPERTY FailedProbeReopens
