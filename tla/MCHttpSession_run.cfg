SPECIFICATION Spec
CONSTANTS
  Methods <- MCMethods
  Requests <- MCRequests
  Eol <- MCEol
  Outcomes <- MCOutcomes
  StatusText <- MCStatusText
  KeepaliveServer = TRUE
  \* no byte of these requests is one that uri_relaxed lets in
  Relaxed = {FALSE}
  BufferSize = 60
  MaxRequests = 2
  MaxReads = 1
  Stops = {0, 20, 37}
INVARIANTS
  HandedOverIntact
  OverrunHasCause
PROPERTIES
  ResponseUnderstood
  AnsweredOrClosed
