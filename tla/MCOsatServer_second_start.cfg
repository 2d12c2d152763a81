SPECIFICATION Spec
CONSTANTS
  o1 = o1
  o2 = o2
  None = None
  Malformed = Malformed
  Osats <- TwoOsats
  Fitted <- Own
  Disks <- OneFills
  MaxHits = 1
  MaxCommands = 2
  MaxFaults = 0
INVARIANT ReportEarned
CHECK_DEADLOCK FALSE
