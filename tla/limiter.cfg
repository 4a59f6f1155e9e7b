CONSTANTS
  Keys = {k1, k2}
  Limit = 2
  Window = 3
  Second = 2
  MaxClock = 7
SPECIFICATION Spec
INVARIANTS
  TypeOK
  WindowLimit
PROPERTIES
  ResetIsHonest
  NoNeedlessDenial
CHECK_DEADLOCK FALSE
