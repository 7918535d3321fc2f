SPECIFICATION Spec
CONSTANTS
  w1 = w1
  w2 = w2
  Workers = {w1, w2}
  None = None
  MaxGen = 3
  MaxCount = 1
INVARIANT LandsInNewSegment
