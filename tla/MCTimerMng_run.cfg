CONSTANTS
  x = x
  y = y
  p = p
  q = q
  c = c
  Timer = {x, y}
  Caller = {c}
  Poller = {p, q}
  Period = {1, 2}
  MaxTimeout = 3
  MaxTime = 2
  Preempt = TRUE
SPECIFICATION Spec
INVARIANTS NoOversleep CollectedOnce
PROPERTIES CancelledStaysSilent NeverEarly
CHECK_DEADLOCK FALSE
SYMMETRY Symmetry
