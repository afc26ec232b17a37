SPECIFICATION Spec
CONSTANTS
  S1 = S1  S2 = S2  S3 = S3  SC = SC
  Secrets = {S1, S2, SC}
  Configured = SC
  NoSecret = NoSecret
  MaxTokens = 2
  MaxNow = 2
SYMMETRY MCSymmetry
INVARIANTS
  TypeOK
  CacheIsTable
  ReplacedStaysOut
  HandedOutWorks
  LastUseIsTrue
CHECK_DEADLOCK FALSE
