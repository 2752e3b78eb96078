CONSTANTS
  a = a
  b = b
  None = None
  Coro = {a, b}
  Threads = 2
  MaxConn = 2
  MaxQueued = 1
SPECIFICATION FairSpec
INVARIANTS WaiterHasWaker AbortNeedsReuse TimeoutIsGenuine TimerFitsWait
PROPERTIES ArrivalEndsWait
