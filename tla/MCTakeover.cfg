SPECIFICATION Spec
CONSTANTS
  Chats = {c1, c2}
  Requests = {r1, r2}
  MaxFaults = 1
  Ops = {"start", "end", "keep", "pause", "resume", "stop", "close"}
  None = None
  c1 = c1
  c2 = c2
  r1 = r1
  r2 = r2
SYMMETRY Symmetry
INVARIANTS
  TypeOK
  
  GivenBack
  SeenThrough
CHECK_DEADLOCK FALSE
