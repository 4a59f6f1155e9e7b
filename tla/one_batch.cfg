CONSTANTS
  ItemCount = 3
  Workers = {w1, w2}
  BatchSize = 2
SPECIFICATION FairSpec
PROPERTIES
  OneBatchAtATime
