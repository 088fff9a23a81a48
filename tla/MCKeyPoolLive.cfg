SPECIFICATION FairSpec
CONSTANTS
  Answers = {"limited", "quota", "timeout", "refused", "bad"}
  NumKeys = 1
  Requests = {r1, r2}
  Threshold = 2
  MaxFaults = 1
  Rotations = {"failover", "round_robin"}
  r1 = r1
  r2 = r2
PROPERTIES
  Recovers
  RefusedRetired
