CONSTANTS
  c1 = c1
  c2 = c2
  p = p
  q = q
  Fd = {5}
  Client = {c1, c2}
  Poller = {p, q}
  InitSize = 4
SPECIFICATION FairSpec
INVARIANTS PendingExact Armed AbortHasCause
PROPERTIES ReadyIsDelivered
