\* One pool thread, and Master running the loop inside stop() (useSche).
CONSTANTS
  w1 = w1
  m = m
  a = a
  b = b
  None = None
  Pool = {w1}
  Master = m
  UseMaster = TRUE
  Task = {a, b}
  Pin <- NoPin
  EarlyWake = FALSE
  LateResubmit = FALSE
  MayYieldReady = TRUE
SPECIFICATION FairSpec
INVARIANTS TypeOK OneRunner NoAbort ActiveExact NoAbandonedWork
PROPERTIES StopReturns ImplementsTaskPool EveryTaskServed
