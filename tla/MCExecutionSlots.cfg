SPECIFICATION FairSpec
CONSTANTS
  Sessions = {s1, s2, s3}
  MaxSlots = 1
  Burst = 2
  None = None
  s1 = s1
  s2 = s2
  s3 = s3
INVARIANTS
  SlotAccounting
  HeavyBypassBounded
PROPERTIES
  ClassProgress
  ImplementsSlots
