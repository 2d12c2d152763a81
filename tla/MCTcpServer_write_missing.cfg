SPECIFICATION Spec
CONSTANTS
  e1 = e1
  e2 = e2
  e3 = e3
  None = None
  Endpoints <- TwoEndpoints
  MaxNumClients = 1
  LineLen = 1
  MaxBytes = 1
  Replies <- Terminal
  Aborts = FALSE
INVARIANT MissingWriteDoesNothing
CHECK_DEADLOCK FALSE
