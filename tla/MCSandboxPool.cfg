SPECIFICATION Spec
CONSTANTS
  Boxes = {b1, b2}
  Sessions = {c1, c2}
  Tasks = {t1}
  MinSize = 1
  MaxSize = 2
  PauseIdle = TRUE
  OomMonitor = TRUE
  Reaping = TRUE
  MayStop = TRUE
  MaxFails = 1
  MaxRetries = 0
  MaxFaults = 1
  None = None
  b1 = b1
  b2 = b2
  c1 = c1
  c2 = c2
  t1 = t1
SYMMETRY Symmetry
INVARIANTS
  TypeOK
  Tracked
  ReaperSparesPool
