SPECIFICATION Spec
CONSTANTS
  Base = 2
  Group = 3
  IntBytes = 2
  Items <- MCItems
  Received <- MCReceived
  MaxSize = 4
  Junk = Junk
  None = None
INVARIANTS
  CursorExact
  ReadBack
  ViewsAgree
PROPERTY ImplementsByteStore
CHECK_DEADLOCK FALSE
