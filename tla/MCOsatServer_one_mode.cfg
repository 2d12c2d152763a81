SPECIFICATION Spec
CONSTANTS
  o1 = o1
  o2 = o2
  None = None
  Malformed = Malformed
  Osats <- TwoOsats
  Fitted <- Own
  Disks <- Overlapping
  MaxHits = 1
  MaxCommands = 2
  MaxFaults = 0
INVARIANT OneModeAtATime
CHECK_DEADLOCK FALSE
