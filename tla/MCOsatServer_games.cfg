SPECIFICATION Spec
CONSTANTS
  o1 = o1
  o2 = o2
  None = None
  Malformed = Malformed
  Osats <- TwoOsats
  Fitted <- Own
  Disks <- Mixed
  MaxHits = 2
  MaxCommands = 2
  MaxFaults = 1
INVARIANTS TypeOK NoLostOsat StoppedGameIsDark CountedReportEarned ForeignIdIsDefault
CHECK_DEADLOCK FALSE
