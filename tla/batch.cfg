CONSTANTS
  JobCount = 3
  Workers = {w1, w2}
  Modes = {TRUE, FALSE}
  LongCooldown = TRUE
  NoWorker = none
SPECIFICATION FairSpec
INVARIANTS
  TypeOK
  NothingLost
  CauseIsReported
PROPERTIES
  SerializedAndSpaced
  AttemptedOnce
  BatchReturns
