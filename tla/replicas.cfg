CONSTANTS
  c1 = c1
  c2 = c2
  x1 = x1
  x2 = x2
  EmptyDocument = empty
  NoSkillFile = nofile
  Absent = absent
  SkillIDs = {1}
  Documents = {c1, c2, empty, nofile}
  Extras = {x1}
  Replicas = {r1, r2}
  Candidates <- SmallCandidates
  Unstorable <- MCUnstorable
  BatchSize = 1
  Scores = {4, 5}
  Modes <- BothModes
  RollingConfig = FALSE
  MaxFaults = 1
SPECIFICATION FairSpec
PROPERTIES
  ImplementsPublication
  UnassessedIsDecided
  RunsEnd
