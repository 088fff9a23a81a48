SPECIFICATION FairSpec
CONSTANTS
  Boxes = {b1, b2, b3, b4}
  Sessions = {c1}
  Tasks = {t1}
  MinSize = 1
  MaxSize = 1
  PauseIdle = FALSE
  OomMonitor = FALSE
  Reaping = TRUE
  MayStop = FALSE
  MaxFails = 1
  MaxRetries = 0
  MaxFaults = 0
  None = None
  b1 = b1
  b2 = b2
  b3 = b3
  b4 = b4
  c1 = c1
  t1 = t1
PROPERTIES
  Refills
  Reclaimed
