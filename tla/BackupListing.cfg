SPECIFICATION Spec
CONSTANTS
  P1 = P1  P2 = P2
  Requests = {P1, P2}
  MaxBackups = 3
INVARIANTS
  TypeOK
  CacheHoldsNewest
PROPERTIES
  WaitersAnswered
CHECK_DEADLOCK FALSE
