CONSTANTS
  ItemCount = 4
  Workers = {w1, w2}
  BatchSize = 2
SPECIFICATION FairSpec
INVARIANTS
  TypeOK
  CauseIsReported
  AllAccountedFor
PROPERTIES
  PageEnds
