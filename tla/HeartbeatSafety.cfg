SPECIFICATION Spec
CONSTANTS
  Interval = 4
  Grace = 1
  WriteTimeout = 6
  HelloTime = 2
  TouchTime = 1
  SaveTime = 2
  CloseTime = 2
  OfflineAfter = 12
  Delay = 1
  MaxFaults = 1
PROPERTY HealthyIsKept
INVARIANTS LossIsNoticed HealthyReadsOnline GoneReadsOffline
