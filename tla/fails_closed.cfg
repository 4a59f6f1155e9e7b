CONSTANTS
  c1 = c1
  c2 = c2
  x1 = x1
  x2 = x2
  EmptyDocument = empty
  NoSkillFile = nofile
  Absent = absent
  SkillIDs = {1, 2, 3}
  Documents = {c1, c2, empty, nofile}
  Extras = {x1, x2}
  Replicas = {r1}
  Candidates <- SingleCandidates
  Unstorable <- MCUnstorable
  BatchSize = 2
  Scores = {4, 5}
  Modes <- BothModes
  RollingConfig = FALSE
  MaxFaults = 2
SPECIFICATION Spec
INVARIANT
  FailsClosed
CHECK_DEADLOCK FALSE
