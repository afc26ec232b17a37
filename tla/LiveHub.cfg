SPECIFICATION FairSpec
CONSTANTS
  T1 = T1  Ingest = Ingest  Pricing = Pricing
  Tabs = {T1}
  Writers = {Ingest, Pricing}
  Passes = {Pricing}
INVARIANTS
  TypeOK
  SignalsCoalesce
PROPERTIES
  SubscribedTabCatchesUp
  TrackedStreamsEnd
CHECK_DEADLOCK FALSE
