CONSTANTS
  SkillIDs = {1, 2}
  EmptyDocument = empty
  NoSkillFile = none
  Documents = {empty, none}
  Extras = {plain}
  Absent = Absent
  Requests = {q1, q2}
  KeyIDs = {k1}
  Master = master
  PerPage = 1
  LastPage = 1
  MaxWrites = 2
  MaxFaults = 1
SYMMETRY Symmetry
SPECIFICATION Spec
INVARIANTS
  TypeOK
  DownloadsAddUp
  RevokedOnce
PROPERTIES
  AnswersAreJustified
  PagingStopsInTime
CHECK_DEADLOCK FALSE
