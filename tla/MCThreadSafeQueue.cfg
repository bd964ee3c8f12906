CONSTANTS
  e1 = e1
  e2 = e2
  c1 = c1
  c2 = c2
  Elements <- MCElements
  Consumers <- MCConsumers
  DefaultSize = 2
  ConfigSize = 1
  MaxPushes = 4
SPECIFICATION FairSpec
INVARIANTS NoStrandedElement NullsComeFromRejections
PROPERTIES RefinesFifo EveryElementDelivered
