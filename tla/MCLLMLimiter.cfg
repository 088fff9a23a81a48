SPECIFICATION FairSpec
CONSTANTS
  Calls = {c1, c2, c3, c4}
  MaxConcurrent = 2
  MaxAttempts = 3
  MaxCancels = 2
  c1 = c1
  c2 = c2
  c3 = c3
  c4 = c4
INVARIANTS
  SlotsExact
  NoLostWakeup
PROPERTIES
  Served
  ImplementsSlots
