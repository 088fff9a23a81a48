SPECIFICATION MCSpec
CONSTANTS
  Chats = {c1, c2}
  Stops = {s1}
  Overlap = "none"
  Warmup = TRUE
  MaxEvents = 1
  MaxFaults = 3
  None = None
  c1 = c1
  c2 = c2
  s1 = s1
SYMMETRY Symmetry
INVARIANTS
  TypeOK
  StreamsEnd
  Settled
  
  Answered
  Registered
