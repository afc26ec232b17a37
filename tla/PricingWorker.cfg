SPECIFICATION Spec
CONSTANTS
  Nil = Nil  Paid = Paid  Other = Other  Gratis = Gratis
  In = In  Out = Out  Cache = Cache  Ten = Ten  Reported = Reported  Corrected = Corrected
  E1 = E1  E2 = E2
  Ids = {1, 2}
  Models <- MCModels
  FreeModels = {Gratis}
  ManualModels = {Other}
  MaxVersion = 2
  Listed <- MCListed
  Malformed <- MCMalformed
  Cols <- MCCols
  RequiredCols = {In, Out}
  Counts = {Ten}
  Times = {1, 2}
  Amounts = {Reported, Corrected}
  Telemetry <- MCTelemetry
  Historical = {}
  Exporters = {E1}
  PageLimit = 1
  MaxRevision = 2
  MaxOutages = 1
  MaxDbErrors = 1
  MaxCrashes = 0
INVARIANTS
  TypeOK
  Provenance
  NoStaleEstimate
  PendingHasAWake
PROPERTIES
  ImplementsCostLedger
CHECK_DEADLOCK FALSE
