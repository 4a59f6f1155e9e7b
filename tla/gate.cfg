CONSTANTS
  Callers = {w1, main}
  Workers = {w1}
  Resources = {core, code_search}
  Core = core
  NameCount = 2
  MaxRetries = 2
  Minute = 1
  LatestReset = 1
SPECIFICATION FairPoolSpec
INVARIANTS
  TypeOK
  InstructionKept
  LookupIsComplete
PROPERTIES
  GateHonoured
  PoolEnds
CHECK_DEADLOCK FALSE
