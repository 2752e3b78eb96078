\* One worker thread, one task.
CONSTANTS
  w1 = w1
  m = m
  a = a
  None = None
  Pool = {w1}
  Master = m
  UseMaster = FALSE
  Task = {a}
  Pin <- NoPin
  EarlyWake = FALSE
  LateResubmit = FALSE
  MayYieldReady = FALSE
  MayRecur = FALSE
SPECIFICATION IOSpec
INVARIANTS NoLostWakeup
