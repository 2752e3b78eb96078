\* Two threads in the loop, one of them Master inside stop(); one task.
CONSTANTS
  w1 = w1
  m = m
  a = a
  None = None
  Pool = {w1}
  Master = m
  UseMaster = TRUE
  Task = {a}
  Pin <- NoPin
  EarlyWake = FALSE
  LateResubmit = FALSE
  MayYieldReady = FALSE
  MayRecur = TRUE
SPECIFICATION IOFairSpec
INVARIANTS CountersExact NoOversleep NoWaiterLeftBehind
PROPERTIES IOStopReturns WaiterRuns
