SPECIFICATION FairSpec
CONSTANTS
  e1 = e1
  e2 = e2
  e3 = e3
  None = None
  Endpoints <- TwoEndpoints
  MaxNumClients = 1
  LineLen = 2
  MaxBytes = 4
  Replies <- Silent
  Aborts = FALSE
INVARIANTS TypeOK CapacityBound ReaderObjectAlive
PROPERTIES InOrder LinesDelivered StoppedHandled
