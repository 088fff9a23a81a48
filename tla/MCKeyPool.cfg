SPECIFICATION Spec
CONSTANTS
  Answers = {"limited", "quota", "timeout", "refused", "bad"}
  NumKeys = 2
  Requests = {r1, r2}
  Threshold = 2
  MaxFaults = 0
  Rotations = {"failover", "round_robin"}
  r1 = r1
  r2 = r2
SYMMETRY Symmetry
INVARIANTS
  TypeOK
  StormRemembered
  
