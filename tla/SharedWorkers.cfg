SPECIFICATION FairSpec
CONSTANTS
  w1 = w1
  w2 = w2
  Workers = {w1, w2}
  None = None
  MaxGen = 5
  MaxCount = 2
INVARIANTS
  TypeOK
  SoleBuilder
  PublishedAttachable
  AttachSeesWhatWasPublished
  SegmentBound
PROPERTIES
  PublishedNeverSwept
  GenerationsForward
  ReadersConverge
  LoadRecovers
