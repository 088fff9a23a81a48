SPECIFICATION Spec
CONSTANTS
  Boxes = {b1, b2, b3, b4, b5}
  Sessions = {c1}
  Tasks = {t1, t2}
  MinSize = 1
  MaxSize = 2
  PauseIdle = FALSE
  OomMonitor = FALSE
  Reaping = FALSE
  MayStop = FALSE
  MaxFails = 1
  MaxRetries = 1
  MaxFaults = 0
  None = None
  b1 = b1
  b2 = b2
  b3 = b3
  b4 = b4
  b5 = b5
  c1 = c1
  t1 = t1
  t2 = t2
SYMMETRY Symmetry
INVARIANTS
  Exclusive
PROPERTIES
  OnlyReaperRemoves
