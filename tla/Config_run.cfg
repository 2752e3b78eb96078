SPECIFICATION Spec
CONSTANTS
  Threads = {t1, t2, t3}
  Values = {v0, v1, v2}
  Default = v0
  Listeners = {l1, l2}
  MaxCalls = 3
INVARIANT CopiesFollow
PROPERTY SetReturns
CHECK_DEADLOCK FALSE
