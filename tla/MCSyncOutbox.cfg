SPECIFICATION FairSpec
CONSTANTS
  Memories = {m1, m2}
  MaxRetries = 2
  BatchSize = 2
  MaxEntries = 3
  MaxFaults = 2
  Forgiven = {"qdrant", "reopened", "unqueued", "undeleted", "orphaned", "expired", "stranded"}
  m1 = m1
  m2 = m2
INVARIANTS
  TypeOK
  
  Buried
PROPERTIES
  Settles
CHECK_DEADLOCK FALSE
