SPECIFICATION Spec
CONSTANTS
  DayLength = 2
  MaxNow = 4
  MaxBack = 0
  MaxChanges = 1
  MaxRequests = 0
  MaxFailures = 0
  MaxDbFailures = 0
  MaxStops = 0
  MaxEvents = 2
PROPERTIES
  ChosenTimeStays
CHECK_DEADLOCK FALSE
