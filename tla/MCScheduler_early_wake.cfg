\* One pool thread and Master in the loop; a coroutine may be scheduled before it has parked.
CONSTANTS
  w1 = w1
  w2 = w2
  m = m
  a = a
  b = b
  None = None
  Pool = {w1}
  Master = m
  UseMaster = TRUE
  Task = {a}
  Pin <- NoPin
  EarlyWake = TRUE
  LateResubmit = FALSE
  MayYieldReady = FALSE
SPECIFICATION Spec
INVARIANTS NoAbort
