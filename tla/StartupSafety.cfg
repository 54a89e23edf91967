SPECIFICATION FairSpec
CONSTANTS
  Proc = {p1, p2}
  Files <- PlainThird
  Environments <- AllEnvironments
  MaxFaults = 2
  MaxCerts = 2
INVARIANTS SchemaIsRecorded ServingIsReady
PROPERTIES EventuallyServes
CHECK_DEADLOCK FALSE
