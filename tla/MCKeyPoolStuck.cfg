SPECIFICATION FairSpec
CONSTANTS
  Answers = {"limited", "quota", "timeout", "refused", "bad"}
  NumKeys = 2
  Requests = {r1}
  Threshold = 2
  MaxFaults = 0
  Rotations = {"failover"}
  r1 = r1
PROPERTIES
  AlwaysRecovers
