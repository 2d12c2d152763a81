SPECIFICATION FairSpec
CONSTANTS
  e1 = e1
  e2 = e2
  e3 = e3
  None = None
  Endpoints <- TwoEndpoints
  MaxNumClients = 1
  LineLen = 1
  MaxBytes = 1
  Replies <- Silent
  Aborts = FALSE
PROPERTY AcceptsAgain
