SPECIFICATION Spec
CONSTANTS
  Loops = {l1, l2}
  Closers = {c1, c2}
  Threads = {1, 2}
  None = None
  MaxClients = 2
INVARIANTS
  StrandedHasCause
  NoSpinNoAbort
PROPERTIES
  StopEndsLoops
  ConnectionAccepted
CHECK_DEADLOCK FALSE
