SPECIFICATION Spec
CONSTANTS
  DayLength = 3
  MaxNow = 4
  MaxBack = 1
  MaxChanges = 1
  MaxRequests = 1
  MaxFailures = 2
  MaxDbFailures = 1
  MaxStops = 1
  MaxEvents = 3
INVARIANTS
  TypeOK
  SuccessIsStored
  CycleIsKept
PROPERTIES
  OnlyWhenDue
  RequestServed
  MissedRunServed
CHECK_DEADLOCK FALSE
