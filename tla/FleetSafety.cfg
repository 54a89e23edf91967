SPECIFICATION FairSpec
CONSTANTS
  c1 = c1
  c2 = c2
  n1 = n1
  s1 = s1
  s2 = s2
  Client = {c1, c2}
  NodeId = {n1}
  NodeOf <- SharedName
  Slot = {s1, s2}
  UserToken = {c2}
  NoSlot = NoSlot
  MaxFaults = 2
INVARIANTS RegistryExact NobodyStranded
PROPERTIES GoodClientRetries ComesOnline
CHECK_DEADLOCK FALSE
