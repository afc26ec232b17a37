SPECIFICATION Spec
CONSTANTS
  R1 = R1  R2 = R2
  Requests = {R1, R2}
  Second = 2
  Ttls = {6, 9}  DefaultTtl = 9
  Share = 3
  MaxRefreshInterval = 3
  MaxFlight = 1
  MaxNow = 14
  MaxStarts = 1
SYMMETRY RequestsAlike
INVARIANTS
  TypeOK
  LoginInUseStays
  IdleLapses
  LogoutSticks
CHECK_DEADLOCK FALSE
