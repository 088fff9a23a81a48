SPECIFICATION FairSpec
CONSTANTS
  Poppers = {p1, p2}
  MaxEntries = 3
  MaxFaults = 2
  MaxLen = 1
  MaxStalls = 2
  None = None
  p1 = p1
  p2 = p2
INVARIANTS
  AtMostOnce
  NothingVanishes
  OneConsumer
PROPERTIES
  LockIsOwners
  ImplementsChannel
  Drains
