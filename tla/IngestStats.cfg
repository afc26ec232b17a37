SPECIFICATION Spec
CONSTANTS
  R1 = R1  R2 = R2
  Records = {R1}
  MaxDay = 2
  MaxRestarts = 2
  MaxDbErrors = 2
INVARIANTS
  TypeOK
  CountedOnce
  Conserved
CHECK_DEADLOCK FALSE
